---------------------------- MODULE Spec2Model ----------------------------
(***************************************************************************)
(* A model of re-spirv: Shader::parse (parseWords, process, sort) and      *)
(* Optimizer::run (prepare, patch specialization constants, evaluation     *)
(* pass with terminator folding, decoration cleanup, phi compaction and    *)
(* stream compaction), at the level of the 32-bit SPIR-V word stream.      *)
(*                                                                         *)
(* Words are uint32_t in the source.  A word is represented here by the    *)
(* int32_t that has the same bit pattern, so that 0xFFFFFFFF (UINT32_MAX,  *)
(* the deletion sentinel and the 'no index' marker) is -1 and a counter    *)
(* decremented at zero wraps to it.  Indices are 0-based as in the source; *)
(* Word(ws, i) reads element i of a buffer.                                *)
(***************************************************************************)
EXTENDS Integers, Sequences, FiniteSets, TLC

UINT32_MAX == -1

\* An unsigned comparison of two words given by their int32_t bit patterns.
ULess(a, b) == IF (a < 0) = (b < 0) THEN a < b ELSE b < 0

UGreaterEqual(a, b) == ~ULess(a, b)

\* Opcode numbers of spirv/unified1/spirv.h, for the opcodes the source names.
SpvOpUndef == 1
SpvOpSource == 3
SpvOpName == 5
SpvOpMemberName == 6
SpvOpExtension == 10
SpvOpExtInstImport == 11
SpvOpExtInst == 12
SpvOpMemoryModel == 14
SpvOpEntryPoint == 15
SpvOpExecutionMode == 16
SpvOpCapability == 17
SpvOpTypeVoid == 19
SpvOpTypeBool == 20
SpvOpTypeInt == 21
SpvOpTypeFloat == 22
SpvOpTypeVector == 23
SpvOpTypeMatrix == 24
SpvOpTypeImage == 25
SpvOpTypeSampler == 26
SpvOpTypeSampledImage == 27
SpvOpTypeArray == 28
SpvOpTypeRuntimeArray == 29
SpvOpTypeStruct == 30
SpvOpTypePointer == 32
SpvOpTypeFunction == 33
SpvOpConstantTrue == 41
SpvOpConstantFalse == 42
SpvOpConstant == 43
SpvOpConstantComposite == 44
SpvOpConstantNull == 46
SpvOpSpecConstantTrue == 48
SpvOpSpecConstantFalse == 49
SpvOpSpecConstant == 50
SpvOpFunction == 54
SpvOpFunctionParameter == 55
SpvOpFunctionEnd == 56
SpvOpFunctionCall == 57
SpvOpVariable == 59
SpvOpLoad == 61
SpvOpStore == 62
SpvOpAccessChain == 65
SpvOpDecorate == 71
SpvOpMemberDecorate == 72
SpvOpVectorShuffle == 79
SpvOpCompositeConstruct == 80
SpvOpCompositeExtract == 81
SpvOpCompositeInsert == 82
SpvOpCopyObject == 83
SpvOpTranspose == 84
SpvOpSampledImage == 86
SpvOpImageSampleImplicitLod == 87
SpvOpImageSampleExplicitLod == 88
SpvOpImageSampleDrefImplicitLod == 89
SpvOpImageSampleDrefExplicitLod == 90
SpvOpImageSampleProjImplicitLod == 91
SpvOpImageSampleProjExplicitLod == 92
SpvOpImageSampleProjDrefImplicitLod == 93
SpvOpImageSampleProjDrefExplicitLod == 94
SpvOpImageFetch == 95
SpvOpImageGather == 96
SpvOpImageDrefGather == 97
SpvOpImageRead == 98
SpvOpImageWrite == 99
SpvOpImage == 100
SpvOpImageQuerySizeLod == 103
SpvOpImageQueryLevels == 106
SpvOpConvertFToU == 109
SpvOpConvertFToS == 110
SpvOpConvertSToF == 111
SpvOpConvertUToF == 112
SpvOpBitcast == 124
SpvOpSNegate == 126
SpvOpFNegate == 127
SpvOpIAdd == 128
SpvOpFAdd == 129
SpvOpISub == 130
SpvOpFSub == 131
SpvOpIMul == 132
SpvOpFMul == 133
SpvOpUDiv == 134
SpvOpSDiv == 135
SpvOpFDiv == 136
SpvOpUMod == 137
SpvOpSRem == 138
SpvOpSMod == 139
SpvOpFRem == 140
SpvOpFMod == 141
SpvOpVectorTimesScalar == 142
SpvOpMatrixTimesScalar == 143
SpvOpVectorTimesMatrix == 144
SpvOpMatrixTimesVector == 145
SpvOpMatrixTimesMatrix == 146
SpvOpOuterProduct == 147
SpvOpDot == 148
SpvOpIAddCarry == 149
SpvOpISubBorrow == 150
SpvOpUMulExtended == 151
SpvOpSMulExtended == 152
SpvOpAny == 154
SpvOpAll == 155
SpvOpLogicalEqual == 164
SpvOpLogicalNotEqual == 165
SpvOpLogicalOr == 166
SpvOpLogicalAnd == 167
SpvOpLogicalNot == 168
SpvOpSelect == 169
SpvOpIEqual == 170
SpvOpINotEqual == 171
SpvOpUGreaterThan == 172
SpvOpSGreaterThan == 173
SpvOpUGreaterThanEqual == 174
SpvOpSGreaterThanEqual == 175
SpvOpULessThan == 176
SpvOpSLessThan == 177
SpvOpULessThanEqual == 178
SpvOpSLessThanEqual == 179
SpvOpFOrdEqual == 180
SpvOpFUnordEqual == 181
SpvOpFOrdNotEqual == 182
SpvOpFUnordNotEqual == 183
SpvOpFOrdLessThan == 184
SpvOpFUnordLessThan == 185
SpvOpFOrdGreaterThan == 186
SpvOpFUnordGreaterThan == 187
SpvOpFOrdLessThanEqual == 188
SpvOpFUnordLessThanEqual == 189
SpvOpFOrdGreaterThanEqual == 190
SpvOpFUnordGreaterThanEqual == 191
SpvOpShiftRightLogical == 194
SpvOpShiftRightArithmetic == 195
SpvOpShiftLeftLogical == 196
SpvOpBitwiseOr == 197
SpvOpBitwiseXor == 198
SpvOpBitwiseAnd == 199
SpvOpNot == 200
SpvOpBitFieldInsert == 201
SpvOpBitFieldSExtract == 202
SpvOpBitFieldUExtract == 203
SpvOpBitReverse == 204
SpvOpBitCount == 205
SpvOpDPdx == 207
SpvOpDPdy == 208
SpvOpFwidth == 209
SpvOpPhi == 245
SpvOpLoopMerge == 246
SpvOpSelectionMerge == 247
SpvOpLabel == 248
SpvOpBranch == 249
SpvOpBranchConditional == 250
SpvOpSwitch == 251
SpvOpKill == 252
SpvOpReturn == 253
SpvOpReturnValue == 254
SpvOpUnreachable == 255
SpvOpCopyLogical == 400

\* An opcode of spirv.h that SpvIsSupported does not list; it has a result and a type.
SpvOpGroupNonUniformBallot == 339

\* SpvIsSupported: the closed set of opcodes process() accepts.
SupportedOpCodes ==
  {SpvOpUndef, SpvOpSource, SpvOpName, SpvOpMemberName, SpvOpExtension,
    SpvOpExtInstImport, SpvOpExtInst, SpvOpMemoryModel, SpvOpEntryPoint,
    SpvOpExecutionMode, SpvOpCapability, SpvOpTypeVoid, SpvOpTypeBool, SpvOpTypeInt,
    SpvOpTypeFloat, SpvOpTypeVector, SpvOpTypeMatrix, SpvOpTypeImage, SpvOpTypeSampler,
    SpvOpTypeSampledImage, SpvOpTypeArray, SpvOpTypeRuntimeArray, SpvOpTypeStruct,
    SpvOpTypePointer, SpvOpTypeFunction, SpvOpConstantTrue, SpvOpConstantFalse,
    SpvOpConstant, SpvOpConstantComposite, SpvOpConstantNull, SpvOpSpecConstant,
    SpvOpFunction, SpvOpFunctionParameter, SpvOpFunctionEnd, SpvOpFunctionCall,
    SpvOpVariable, SpvOpLoad, SpvOpStore, SpvOpAccessChain, SpvOpDecorate,
    SpvOpMemberDecorate, SpvOpVectorShuffle, SpvOpCompositeConstruct,
    SpvOpCompositeExtract, SpvOpCompositeInsert, SpvOpCopyObject, SpvOpTranspose,
    SpvOpSampledImage, SpvOpImageSampleImplicitLod, SpvOpImageSampleExplicitLod,
    SpvOpImageSampleDrefImplicitLod, SpvOpImageSampleDrefExplicitLod,
    SpvOpImageSampleProjImplicitLod, SpvOpImageSampleProjExplicitLod,
    SpvOpImageSampleProjDrefImplicitLod, SpvOpImageSampleProjDrefExplicitLod,
    SpvOpImageFetch, SpvOpImageGather, SpvOpImageDrefGather, SpvOpImageRead,
    SpvOpImageWrite, SpvOpImage, SpvOpImageQuerySizeLod, SpvOpImageQueryLevels,
    SpvOpConvertFToU, SpvOpConvertFToS, SpvOpConvertSToF, SpvOpConvertUToF,
    SpvOpBitcast, SpvOpSNegate, SpvOpFNegate, SpvOpIAdd, SpvOpFAdd, SpvOpISub,
    SpvOpFSub, SpvOpIMul, SpvOpFMul, SpvOpUDiv, SpvOpSDiv, SpvOpFDiv, SpvOpUMod,
    SpvOpSRem, SpvOpSMod, SpvOpFRem, SpvOpFMod, SpvOpVectorTimesScalar,
    SpvOpMatrixTimesScalar, SpvOpVectorTimesMatrix, SpvOpMatrixTimesVector,
    SpvOpMatrixTimesMatrix, SpvOpOuterProduct, SpvOpDot, SpvOpIAddCarry,
    SpvOpISubBorrow, SpvOpUMulExtended, SpvOpSMulExtended, SpvOpAny, SpvOpAll,
    SpvOpLogicalEqual, SpvOpLogicalNotEqual, SpvOpLogicalOr, SpvOpLogicalAnd,
    SpvOpLogicalNot, SpvOpSelect, SpvOpIEqual, SpvOpINotEqual, SpvOpUGreaterThan,
    SpvOpSGreaterThan, SpvOpUGreaterThanEqual, SpvOpSGreaterThanEqual, SpvOpULessThan,
    SpvOpSLessThan, SpvOpULessThanEqual, SpvOpSLessThanEqual, SpvOpFOrdEqual,
    SpvOpFUnordEqual, SpvOpFOrdNotEqual, SpvOpFUnordNotEqual, SpvOpFOrdLessThan,
    SpvOpFUnordLessThan, SpvOpFOrdGreaterThan, SpvOpFUnordGreaterThan,
    SpvOpFOrdLessThanEqual, SpvOpFUnordLessThanEqual, SpvOpFOrdGreaterThanEqual,
    SpvOpFUnordGreaterThanEqual, SpvOpShiftRightLogical, SpvOpShiftRightArithmetic,
    SpvOpShiftLeftLogical, SpvOpBitwiseOr, SpvOpBitwiseXor, SpvOpBitwiseAnd, SpvOpNot,
    SpvOpBitFieldInsert, SpvOpBitFieldSExtract, SpvOpBitFieldUExtract, SpvOpBitReverse,
    SpvOpBitCount, SpvOpDPdx, SpvOpDPdy, SpvOpFwidth, SpvOpPhi, SpvOpLoopMerge,
    SpvOpSelectionMerge, SpvOpLabel, SpvOpBranch, SpvOpBranchConditional, SpvOpSwitch,
    SpvOpKill, SpvOpReturn, SpvOpReturnValue, SpvOpUnreachable, SpvOpCopyLogical}

\* SpvIsSupported with a case for OpGroupNonUniformBallot.
SpvIsSupportedWithBallot(pOpCode) ==
  pOpCode \in SupportedOpCodes \cup {SpvOpGroupNonUniformBallot}

SpvIsSupported(pOpCode) == pOpCode \in SupportedOpCodes

\* SpvIsIgnored with the case of OpMemberName left out.
SpvIsIgnoredWithoutMemberName(pOpCode) == pOpCode \in {SpvOpSource, SpvOpName}

\* SpvIsIgnored: metadata dropped by the final compaction.
SpvIsIgnored(pOpCode) == pOpCode \in {SpvOpSource, SpvOpName, SpvOpMemberName}

\* SpvHasOperands: the layout of the id operands of an instruction. count and skip
\* are UINT32_MAX for 'as many as the word count allows' and 'no skipped operand'.
OperandLayout(start, count, stride, skip, skipString) ==
  [has |-> TRUE, start |-> start, count |-> count, stride |-> stride, skip |-> skip,
   skipString |-> skipString]

NoOperandLayout ==
  [has |-> FALSE, start |-> 0, count |-> 0, stride |-> 0, skip |-> UINT32_MAX,
   skipString |-> FALSE]

SpvHasOperands(pOpCode) ==
  CASE pOpCode \in
        {SpvOpExecutionMode, SpvOpDecorate, SpvOpMemberDecorate,
         SpvOpBranchConditional, SpvOpSwitch, SpvOpReturnValue}
         -> OperandLayout(1, 1, 1, UINT32_MAX, FALSE)
    [] pOpCode \in
        {SpvOpStore}
         -> OperandLayout(1, 2, 1, UINT32_MAX, FALSE)
    [] pOpCode \in
        {SpvOpTypeVector, SpvOpTypeImage, SpvOpTypeSampledImage, SpvOpTypeRuntimeArray}
         -> OperandLayout(2, 1, 1, UINT32_MAX, FALSE)
    [] pOpCode \in
        {SpvOpTypeArray}
         -> OperandLayout(2, 2, 1, UINT32_MAX, FALSE)
    [] pOpCode \in
        {SpvOpTypeStruct, SpvOpTypeFunction}
         -> OperandLayout(2, UINT32_MAX, 1, UINT32_MAX, FALSE)
    [] pOpCode \in
        {SpvOpEntryPoint}
         -> OperandLayout(2, UINT32_MAX, 1, 1, TRUE)
    [] pOpCode \in
        {SpvOpTypePointer, SpvOpLoad, SpvOpCompositeExtract, SpvOpCopyObject,
         SpvOpTranspose, SpvOpImage, SpvOpImageQueryLevels, SpvOpConvertFToU,
         SpvOpConvertFToS, SpvOpConvertSToF, SpvOpConvertUToF, SpvOpBitcast,
         SpvOpSNegate, SpvOpFNegate, SpvOpAny, SpvOpAll, SpvOpLogicalNot, SpvOpNot,
         SpvOpBitReverse, SpvOpBitCount, SpvOpDPdx, SpvOpDPdy, SpvOpFwidth,
         SpvOpCopyLogical}
         -> OperandLayout(3, 1, 1, UINT32_MAX, FALSE)
    [] pOpCode \in
        {SpvOpVectorShuffle, SpvOpCompositeInsert, SpvOpSampledImage,
         SpvOpImageQuerySizeLod, SpvOpIAdd, SpvOpFAdd, SpvOpISub, SpvOpFSub, SpvOpIMul,
         SpvOpFMul, SpvOpUDiv, SpvOpSDiv, SpvOpFDiv, SpvOpUMod, SpvOpSRem, SpvOpSMod,
         SpvOpFRem, SpvOpFMod, SpvOpVectorTimesScalar, SpvOpMatrixTimesScalar,
         SpvOpVectorTimesMatrix, SpvOpMatrixTimesVector, SpvOpMatrixTimesMatrix,
         SpvOpOuterProduct, SpvOpDot, SpvOpIAddCarry, SpvOpISubBorrow,
         SpvOpUMulExtended, SpvOpSMulExtended, SpvOpLogicalEqual, SpvOpLogicalNotEqual,
         SpvOpLogicalOr, SpvOpLogicalAnd, SpvOpIEqual, SpvOpINotEqual,
         SpvOpUGreaterThan, SpvOpSGreaterThan, SpvOpUGreaterThanEqual,
         SpvOpSGreaterThanEqual, SpvOpULessThan, SpvOpSLessThan, SpvOpULessThanEqual,
         SpvOpSLessThanEqual, SpvOpFOrdEqual, SpvOpFUnordEqual, SpvOpFOrdNotEqual,
         SpvOpFUnordNotEqual, SpvOpFOrdLessThan, SpvOpFUnordLessThan,
         SpvOpFOrdGreaterThan, SpvOpFUnordGreaterThan, SpvOpFOrdLessThanEqual,
         SpvOpFUnordLessThanEqual, SpvOpFOrdGreaterThanEqual,
         SpvOpFUnordGreaterThanEqual, SpvOpShiftRightLogical,
         SpvOpShiftRightArithmetic, SpvOpShiftLeftLogical, SpvOpBitwiseOr,
         SpvOpBitwiseAnd, SpvOpBitwiseXor}
         -> OperandLayout(3, 2, 1, UINT32_MAX, FALSE)
    [] pOpCode \in
        {SpvOpSelect, SpvOpBitFieldSExtract, SpvOpBitFieldUExtract}
         -> OperandLayout(3, 3, 1, UINT32_MAX, FALSE)
    [] pOpCode \in
        {SpvOpBitFieldInsert}
         -> OperandLayout(3, 4, 1, UINT32_MAX, FALSE)
    [] pOpCode \in
        {SpvOpConstantComposite, SpvOpFunctionCall, SpvOpAccessChain,
         SpvOpCompositeConstruct}
         -> OperandLayout(3, UINT32_MAX, 1, UINT32_MAX, FALSE)
    [] pOpCode \in
        {SpvOpExtInst}
         -> OperandLayout(3, UINT32_MAX, 1, 1, FALSE)
    [] pOpCode \in
        {SpvOpImageWrite}
         -> OperandLayout(1, UINT32_MAX, 1, 3, FALSE)
    [] pOpCode \in
        {SpvOpImageSampleImplicitLod, SpvOpImageSampleExplicitLod,
         SpvOpImageSampleProjImplicitLod, SpvOpImageSampleProjExplicitLod,
         SpvOpImageFetch, SpvOpImageRead}
         -> OperandLayout(3, UINT32_MAX, 1, 2, FALSE)
    [] pOpCode \in
        {SpvOpImageSampleDrefImplicitLod, SpvOpImageSampleDrefExplicitLod,
         SpvOpImageSampleProjDrefImplicitLod, SpvOpImageSampleProjDrefExplicitLod,
         SpvOpImageGather, SpvOpImageDrefGather}
         -> OperandLayout(3, UINT32_MAX, 1, 3, FALSE)
    [] pOpCode \in
        {SpvOpPhi}
         -> OperandLayout(3, UINT32_MAX, 2, UINT32_MAX, FALSE)
    [] pOpCode \in
        {SpvOpFunction, SpvOpVariable}
         -> OperandLayout(4, 1, 1, UINT32_MAX, FALSE)
    [] OTHER -> NoOperandLayout

\* SpvHasLabels: the layout of the label operands of a control-flow instruction.
LabelLayout(start, count, stride) ==
  [has |-> TRUE, start |-> start, count |-> count, stride |-> stride]

NoLabelLayout == [has |-> FALSE, start |-> 0, count |-> 0, stride |-> 0]

SpvHasLabels(pOpCode) ==
  CASE pOpCode \in {SpvOpSelectionMerge, SpvOpBranch} -> LabelLayout(1, 1, 1)
    [] pOpCode \in {SpvOpLoopMerge} -> LabelLayout(1, 2, 1)
    [] pOpCode \in {SpvOpBranchConditional} -> LabelLayout(2, 2, 1)
    [] pOpCode \in {SpvOpSwitch} -> LabelLayout(2, UINT32_MAX, 2)
    [] OTHER -> NoLabelLayout

SpvOpIsTerminator(pOpCode) ==
  pOpCode \in
    {SpvOpBranch, SpvOpBranchConditional, SpvOpSwitch, SpvOpReturn, SpvOpReturnValue,
    SpvOpKill, SpvOpUnreachable}

\* SpvHasResultAndType (spirv.h utility code): whether an instruction has a result
\* id and a result type.  Opcodes the header does not know have neither.
OpCodesWithoutResult ==
  {SpvOpSource, SpvOpName, SpvOpMemberName, SpvOpExtension, SpvOpMemoryModel,
   SpvOpEntryPoint, SpvOpExecutionMode, SpvOpCapability, SpvOpFunctionEnd, SpvOpStore,
   SpvOpDecorate, SpvOpMemberDecorate, SpvOpImageWrite, SpvOpLoopMerge,
   SpvOpSelectionMerge, SpvOpBranch, SpvOpBranchConditional, SpvOpSwitch, SpvOpKill,
   SpvOpReturn, SpvOpReturnValue, SpvOpUnreachable}

OpCodesWithResultOnly ==
  {SpvOpExtInstImport, SpvOpTypeVoid, SpvOpTypeBool, SpvOpTypeInt, SpvOpTypeFloat,
   SpvOpTypeVector, SpvOpTypeMatrix, SpvOpTypeImage, SpvOpTypeSampler,
   SpvOpTypeSampledImage, SpvOpTypeArray, SpvOpTypeRuntimeArray, SpvOpTypeStruct,
   SpvOpTypePointer, SpvOpTypeFunction, SpvOpLabel}

KnownOpCodes ==
  SupportedOpCodes
  \cup {SpvOpSpecConstantTrue, SpvOpSpecConstantFalse, SpvOpGroupNonUniformBallot}

SpvHasResult(pOpCode) == pOpCode \in KnownOpCodes \ OpCodesWithoutResult

SpvHasType(pOpCode) ==
  pOpCode \in KnownOpCodes \ (OpCodesWithoutResult \cup OpCodesWithResultOnly)

\* Header constants of spirv.h.
SpvMagicNumber == 119734787

SpvVersion == 67072

SpvDecorationSpecId == 1

\* ---------------------------------------------------------------- words

Word(ws, i) == ws[i + 1]

\* opCode = word & 0xFFFF and wordCount = (word >> 16) & 0xFFFF of a header word.
OpCodeOf(w) == w % 65536

WordCountOf(w) == (w \div 65536) % 65536

HeaderWord(pOpCode, pWordCount) == pOpCode + pWordCount * 65536

\* ws with the words at 0-based positions [from, to) replaced by v.
FillWords(ws, from, to, v) ==
  [k \in 1..Len(ws) |-> IF k - 1 >= from /\ k - 1 < to THEN v ELSE ws[k]]

SetWord(ws, i, v) == [ws EXCEPT ![i + 1] = v]

\* strlen over the little-endian bytes of the words from position i.
HasZeroByte(w) ==
  \E b \in 0..3 : (w \div (IF b = 0 THEN 1 ELSE IF b = 1 THEN 256
                           ELSE IF b = 2 THEN 65536 ELSE 16777216)) % 256 = 0

RECURSIVE StringLengthInWords(_, _)
StringLengthInWords(ws, i) ==
  IF i >= Len(ws) \/ HasZeroByte(Word(ws, i)) THEN 1
  ELSE 1 + StringLengthInWords(ws, i + 1)

\* The operand loop shared by Shader::process, optimizerReduceResultDegrees,
\* optimizerReduceLabelDegree and optimizerRunEvaluationPass: the offsets, relative to
\* the instruction's first word, of its id operands.  j counts the operands and
\* operandWordIndex is the offset of the next one (checkOperandWordSkip steps over a
\* literal word or a null-terminated string).
RECURSIVE OperandLoop(_, _, _, _, _, _)
OperandLoop(ws, wordIndex, wordCount, layout, j, operandWordIndex) ==
  IF UGreaterEqual(j, layout.count) THEN <<>>
  ELSE IF j = layout.skip
    THEN OperandLoop(ws, wordIndex, wordCount, layout, j + 1,
                     operandWordIndex +
                       (IF layout.skipString
                          THEN StringLengthInWords(ws, wordIndex + operandWordIndex)
                          ELSE 1))
  ELSE IF operandWordIndex >= wordCount THEN <<>>
  ELSE <<operandWordIndex>> \o
       OperandLoop(ws, wordIndex, wordCount, layout, j + 1,
                   operandWordIndex + layout.stride)

OperandOffsets(ws, wordIndex, wordCount, pOpCode) ==
  LET Offsets(layout) ==
        IF layout.has THEN OperandLoop(ws, wordIndex, wordCount, layout, 0, layout.start)
        ELSE <<>>
  IN Offsets(SpvHasOperands(pOpCode))

OperandIds(ws, wordIndex, wordCount, pOpCode) ==
  LET Ids(offsets) == [k \in 1..Len(offsets) |-> Word(ws, wordIndex + offsets[k])]
  IN Ids(OperandOffsets(ws, wordIndex, wordCount, pOpCode))

\* The label loop: for (j = 0; j < count && start + j * stride < wordCount; j++).
RECURSIVE LabelLoop(_, _, _)
LabelLoop(layout, wordCount, j) ==
  IF UGreaterEqual(j, layout.count) \/ layout.start + j * layout.stride >= wordCount
    THEN <<>>
  ELSE <<layout.start + j * layout.stride>> \o LabelLoop(layout, wordCount, j + 1)

LabelOffsets(wordCount, pOpCode) ==
  LET Offsets(layout) == IF layout.has THEN LabelLoop(layout, wordCount, 0) ELSE <<>>
  IN Offsets(SpvHasLabels(pOpCode))

LabelIds(ws, wordIndex, wordCount, pOpCode) ==
  LET Ids(offsets) == [k \in 1..Len(offsets) |-> Word(ws, wordIndex + offsets[k])]
  IN Ids(LabelOffsets(wordCount, pOpCode))

\* ---------------------------------------------------------------- Shader

\* struct Shader.  instructions[i] is the word index of instruction i; adjacent[i] is
\* the list headed by instructions[i].adjacentListIndex, in traversal order (addToList
\* prepends); results[id] is the producing instruction or UINT32_MAX.
EmptyShader ==
  [spirvWords |-> <<>>, spirvWordCount |-> 0, instructions |-> <<>>,
   adjacent |-> <<>>, instructionInDegrees |-> <<>>, instructionOutDegrees |-> <<>>,
   instructionOrder |-> <<>>, results |-> <<>>, specializations |-> <<>>,
   decorations |-> <<>>, phis |-> <<>>, defaultSwitchOpConstantInt |-> UINT32_MAX]

\* Shader::clear: defaultSwitchOpConstantInt is not among the members it resets.
Clear(sh) == [EmptyShader EXCEPT !.defaultSwitchOpConstantInt = sh.defaultSwitchOpConstantInt]

Specialization(constantInstructionIndex, decorationInstructionIndex) ==
  [constantInstructionIndex |-> constantInstructionIndex,
   decorationInstructionIndex |-> decorationInstructionIndex]

StartingWordIndex == 5

\* The instruction loop of Shader::parseWords.  A word count of 0 never advances
\* wordIndex: the loop does not end, which the result "hang" records.
RECURSIVE ParseWordsLoop(_, _, _)
ParseWordsLoop(sh, idBound, wordIndex) ==
  IF wordIndex >= sh.spirvWordCount THEN [result |-> "ok", shader |-> sh]
  ELSE
    LET opCode == OpCodeOf(Word(sh.spirvWords, wordIndex))
        wordCount == WordCountOf(Word(sh.spirvWords, wordIndex))
        n == Len(sh.instructions)
        Added(sh3) ==
          IF wordCount = 0 THEN [result |-> "hang", shader |-> sh3]
          ELSE ParseWordsLoop(sh3, idBound, wordIndex + wordCount)
        Listed(sh1) ==
          Added([sh1 EXCEPT
                   !.decorations = IF opCode \in {SpvOpDecorate, SpvOpMemberDecorate}
                                     THEN Append(@, n) ELSE @,
                   !.phis = IF opCode = SpvOpPhi THEN Append(@, n) ELSE @,
                   !.instructions = Append(@, wordIndex),
                   !.adjacent = Append(@, <<>>)])
        Result(hasResult, resultId) ==
          IF hasResult /\ UGreaterEqual(resultId, idBound)
            THEN [result |-> "fail", shader |-> sh]
          ELSE Listed(IF hasResult THEN [sh EXCEPT !.results[resultId + 1] = n] ELSE sh)
    IN Result(SpvHasResult(opCode),
              Word(sh.spirvWords, wordIndex + (IF SpvHasType(opCode) THEN 2 ELSE 1)))

ParseWords(sh, data) ==
  LET Words(sh1) ==
        IF sh1.spirvWordCount < StartingWordIndex THEN [result |-> "fail", shader |-> sh1]
        ELSE IF Word(data, 0) /= SpvMagicNumber THEN [result |-> "fail", shader |-> sh1]
        ELSE IF ULess(SpvVersion, Word(data, 1)) THEN [result |-> "fail", shader |-> sh1]
        ELSE ParseWordsLoop([sh1 EXCEPT !.results = [k \in 1..Word(data, 3) |-> UINT32_MAX]],
                            Word(data, 3), StartingWordIndex)
  IN Words([sh EXCEPT !.spirvWords = data, !.spirvWordCount = Len(data)])

\* ---- Shader::process

\* The two checks of an id with the second one, instructionIndex == UINT32_MAX, left out.
ValidResultBelowSize(sh, id) == ULess(id, Len(sh.results))

ValidResult(sh, id) == ULess(id, Len(sh.results)) /\ sh.results[id + 1] /= UINT32_MAX

\* instructions[from].adjacentListIndex = addToList(to, instructions[from].adjacentListIndex)
AddToList(sh, from, to) == [sh EXCEPT !.adjacent[from + 1] = <<to>> \o @]

\* ProcessOperands with the edge turned round: the producer is put in the list of
\* instruction i.
RECURSIVE ProcessOperandsTowardsProducer(_, _, _)
ProcessOperandsTowardsProducer(sh, i, ids) ==
  IF ids = <<>> THEN [ok |-> TRUE, shader |-> sh]
  ELSE IF ~ValidResult(sh, Head(ids)) THEN [ok |-> FALSE, shader |-> sh]
  ELSE ProcessOperandsTowardsProducer(
         [sh EXCEPT !.adjacent[i + 1] = <<sh.results[Head(ids) + 1]>> \o @], i, Tail(ids))

\* Each id in ids, in turn: invalid ends the parse, valid makes i adjacent to its producer.
RECURSIVE ProcessOperands(_, _, _)
ProcessOperands(sh, i, ids) ==
  IF ids = <<>> THEN [ok |-> TRUE, shader |-> sh]
  ELSE IF ~ValidResult(sh, Head(ids)) THEN [ok |-> FALSE, shader |-> sh]
  ELSE ProcessOperands(AddToList(sh, sh.results[Head(ids) + 1], i), i, Tail(ids))

\* Each label in ids: the label's instruction is adjacent to instruction i.
RECURSIVE ProcessLabels(_, _, _)
ProcessLabels(sh, i, ids) ==
  IF ids = <<>> THEN [ok |-> TRUE, shader |-> sh]
  ELSE IF ~ValidResult(sh, Head(ids)) THEN [ok |-> FALSE, shader |-> sh]
  ELSE ProcessLabels(AddToList(sh, i, sh.results[Head(ids) + 1]), i, Tail(ids))

\* The parent labels of an OpPhi, at words 4, 6, ...: the phi is adjacent to each.
PhiParentIds(ws, wordIndex, wordCount) ==
  LET n == IF wordCount > 3 THEN (wordCount - 2) \div 2 ELSE 0
  IN [k \in 1..n |-> Word(ws, wordIndex + 2 * k + 2)]

\* ProcessType remembering the first OpConstant whatever its type is.
ProcessTypeOfAnyConstant(sh, i, wordIndex, opCode) ==
  LET typeId == Word(sh.spirvWords, wordIndex + 1)
      typeInstructionIndex == sh.results[typeId + 1]
      sh1 == AddToList(sh, typeInstructionIndex, i)
  IN IF ~ValidResult(sh, typeId) THEN [ok |-> FALSE, shader |-> sh]
     ELSE IF opCode = SpvOpConstant /\ sh.defaultSwitchOpConstantInt = UINT32_MAX
       THEN [ok |-> TRUE,
             shader |-> [sh1 EXCEPT !.defaultSwitchOpConstantInt =
                                       Word(sh.spirvWords, wordIndex + 2)]]
     ELSE [ok |-> TRUE, shader |-> sh1]

ProcessType(sh, i, wordIndex, opCode) ==
  LET typeId == Word(sh.spirvWords, wordIndex + 1)
      typeInstructionIndex == sh.results[typeId + 1]
      typeOpCode == OpCodeOf(Word(sh.spirvWords, sh.instructions[typeInstructionIndex + 1]))
      sh1 == AddToList(sh, typeInstructionIndex, i)
  IN IF ~ValidResult(sh, typeId) THEN [ok |-> FALSE, shader |-> sh]
     ELSE IF opCode = SpvOpConstant /\ sh.defaultSwitchOpConstantInt = UINT32_MAX
             /\ typeOpCode = SpvOpTypeInt
       THEN [ok |-> TRUE,
             shader |-> [sh1 EXCEPT !.defaultSwitchOpConstantInt =
                                       Word(sh.spirvWords, wordIndex + 2)]]
     ELSE [ok |-> TRUE, shader |-> sh1]

ProcessSpecId(sh, i, wordIndex) ==
  LET resultId == Word(sh.spirvWords, wordIndex + 1)
      constantId == Word(sh.spirvWords, wordIndex + 3)
      size == IF Len(sh.specializations) > constantId + 1
                THEN Len(sh.specializations) ELSE constantId + 1
      resized == [k \in 1..size |->
                    IF k <= Len(sh.specializations) THEN sh.specializations[k]
                    ELSE Specialization(UINT32_MAX, UINT32_MAX)]
  IN IF ~ValidResult(sh, resultId) THEN [ok |-> FALSE, shader |-> sh]
     ELSE [ok |-> TRUE,
           shader |-> [sh EXCEPT !.specializations =
                         [resized EXCEPT ![constantId + 1] =
                            Specialization(sh.results[resultId + 1], i)]]]

\* One iteration of the loop of Shader::process, for instruction i.
ProcessInstruction(sh, i) ==
  LET wordIndex == sh.instructions[i + 1]
      opCode == OpCodeOf(Word(sh.spirvWords, wordIndex))
      wordCount == WordCountOf(Word(sh.spirvWords, wordIndex))
      Labelled(labels) ==
        IF ~labels.ok THEN labels
        ELSE IF opCode = SpvOpPhi
          THEN ProcessOperands(labels.shader, i,
                               PhiParentIds(sh.spirvWords, wordIndex, wordCount))
        ELSE IF opCode = SpvOpDecorate
                /\ Word(sh.spirvWords, wordIndex + 2) = SpvDecorationSpecId
          THEN ProcessSpecId(labels.shader, i, wordIndex)
        ELSE labels
      WithOperands(operands) ==
        Labelled(IF operands.ok
                   THEN ProcessLabels(operands.shader, i,
                          LabelIds(sh.spirvWords, wordIndex, wordCount, opCode))
                 ELSE operands)
      Typed(typed) ==
        WithOperands(IF typed.ok
                       THEN ProcessOperands(typed.shader, i,
                              OperandIds(sh.spirvWords, wordIndex, wordCount, opCode))
                     ELSE typed)
  IN IF ~SpvIsSupported(opCode) THEN [ok |-> FALSE, shader |-> sh]
     ELSE Typed(IF SpvHasType(opCode) THEN ProcessType(sh, i, wordIndex, opCode)
                ELSE [ok |-> TRUE, shader |-> sh])

RECURSIVE ProcessLoop(_, _, _)
ProcessLoop(sh, i, foundOpSwitch) ==
  IF i >= Len(sh.instructions)
    THEN [ok |-> ~(foundOpSwitch /\ sh.defaultSwitchOpConstantInt = UINT32_MAX),
          shader |-> sh]
  ELSE LET opCode == OpCodeOf(Word(sh.spirvWords, sh.instructions[i + 1]))
           Step(step) ==
             IF ~step.ok THEN step
             ELSE ProcessLoop(step.shader, i + 1, foundOpSwitch \/ opCode = SpvOpSwitch)
       IN Step(ProcessInstruction(sh, i))

Process(sh) == ProcessLoop(sh, 0, FALSE)

\* ---- Shader::sort

CountOf(s, x) == Cardinality({k \in 1..Len(s) : s[k] = x})

RECURSIVE SumOf(_, _)
SumOf(f, n) == IF n = 0 THEN 0 ELSE f[n] + SumOf(f, n - 1)

\* The in and out degrees counted over the adjacency lists.
InDegrees(sh) ==
  [k \in 1..Len(sh.instructions) |->
     SumOf([m \in 1..Len(sh.instructions) |-> CountOf(sh.adjacent[m], k - 1)],
           Len(sh.instructions))]

OutDegrees(sh) == [k \in 1..Len(sh.instructions) |-> Len(sh.adjacent[k])]

\* One pop of the topological sort: the adjacents of i, in list order, lose a degree and
\* are pushed when they reach zero.
RECURSIVE SortVisit(_, _, _)
SortVisit(sortDegrees, instructionStack, adjacents) ==
  IF adjacents = <<>> THEN [sortDegrees |-> sortDegrees, instructionStack |-> instructionStack]
  ELSE LET a == Head(adjacents)
           d == sortDegrees[a + 1] - 1
       IN SortVisit([sortDegrees EXCEPT ![a + 1] = d],
                    IF d = 0 THEN Append(instructionStack, a) ELSE instructionStack,
                    Tail(adjacents))

RECURSIVE SortLoop(_, _, _, _)
SortLoop(sh, sortDegrees, instructionStack, instructionOrder) ==
  IF instructionStack = <<>> THEN instructionOrder
  ELSE LET i == instructionStack[Len(instructionStack)]
           v == SortVisit(sortDegrees,
                          SubSeq(instructionStack, 1, Len(instructionStack) - 1),
                          sh.adjacent[i + 1])
       IN SortLoop(sh, v.sortDegrees, v.instructionStack, Append(instructionOrder, i))

InstructionSort(instructionIndex, instructionLevel) ==
  [instructionIndex |-> instructionIndex, instructionLevel |-> instructionLevel]

\* InstructionSort::operator<
InstructionSortLess(a, b) ==
  IF a.instructionLevel < b.instructionLevel THEN TRUE
  ELSE IF a.instructionLevel > b.instructionLevel THEN FALSE
  ELSE a.instructionIndex < b.instructionIndex

\* The level pass.  instructionSortVector has one entry per sorted instruction; a
\* write to an entry past its end (an instruction index >= its size, which takes a
\* cycle to happen) is dropped here.
RECURSIVE RaiseLevels(_, _, _)
RaiseLevels(vector, adjacents, nextLevel) ==
  IF adjacents = <<>> THEN vector
  ELSE LET a == Head(adjacents)
       IN RaiseLevels(IF a < Len(vector) /\ vector[a + 1].instructionLevel < nextLevel
                        THEN [vector EXCEPT ![a + 1].instructionLevel = nextLevel]
                        ELSE vector,
                      Tail(adjacents), nextLevel)

RECURSIVE LevelLoop(_, _, _, _)
LevelLoop(sh, vector, instructionOrder, k) ==
  IF k > Len(instructionOrder) THEN vector
  ELSE LET i == instructionOrder[k]
       IN IF i < Len(vector)
            THEN LevelLoop(sh,
                           [RaiseLevels(vector, sh.adjacent[i + 1],
                                        vector[i + 1].instructionLevel + 1)
                              EXCEPT ![i + 1].instructionIndex = i],
                           instructionOrder, k + 1)
          ELSE LevelLoop(sh, RaiseLevels(vector, sh.adjacent[i + 1], 1),
                         instructionOrder, k + 1)

\* std::sort of the vector: the entries in increasing (level, index) order.
RECURSIVE InsertSorted(_, _)
InsertSorted(sorted, e) ==
  IF sorted = <<>> THEN <<e>>
  ELSE IF InstructionSortLess(e, Head(sorted)) THEN <<e>> \o sorted
  ELSE <<Head(sorted)>> \o InsertSorted(Tail(sorted), e)

RECURSIVE SortVector(_, _)
SortVector(vector, k) ==
  IF k = 0 THEN <<>> ELSE InsertSorted(SortVector(vector, k - 1), vector[k])

\* The order the topological loop of Shader::sort leaves in instructionOrder.
KahnOrder(sh) ==
  LET Order(inDegrees) ==
        SortLoop(sh, inDegrees,
                 SelectSeq([k \in 1..Len(sh.instructions) |-> k - 1],
                           LAMBDA i : inDegrees[i + 1] = 0),
                 <<>>)
  IN Order(InDegrees(sh))

\* The level loop of Shader::sort indexes instructionSortVector, which has one entry
\* per instruction of the topological order, with an instruction index at or past
\* its size: the order misses an instruction (a cycle) and names a later one or has
\* a later one in an adjacency list.  The accesses are outside the vector.
SortOverruns(sh) ==
  LET Overruns(kahn) ==
        \E k \in 1..Len(kahn) :
          \/ kahn[k] >= Len(kahn)
          \/ \E a \in 1..Len(sh.adjacent[kahn[k] + 1]) :
               sh.adjacent[kahn[k] + 1][a] >= Len(kahn)
  IN Overruns(KahnOrder(sh))

Sort(sh) ==
  LET inDegrees == InDegrees(sh)
      stack == SelectSeq([k \in 1..Len(sh.instructions) |-> k - 1],
                         LAMBDA i : inDegrees[i + 1] = 0)
      kahn == SortLoop(sh, inDegrees, stack, <<>>)
      vector == LevelLoop(sh, [k \in 1..Len(kahn) |-> InstructionSort(0, 0)], kahn, 1)
      sorted == SortVector(vector, Len(vector))
  IN [sh EXCEPT !.instructionInDegrees = inDegrees,
                !.instructionOutDegrees = OutDegrees(sh),
                !.instructionOrder = [k \in 1..Len(sorted) |-> sorted[k].instructionIndex]]

\* What Shader::sort can do: it returns true with the order computed; when the level
\* loop writes outside instructionSortVector the behaviour is undefined, and the
\* process either faults or goes on with the writes lost.
SortOutcomes(sh) ==
  {[result |-> "ok", shader |-> Sort(sh)]}
  \cup (IF SortOverruns(sh) THEN {[result |-> "fault", shader |-> sh]} ELSE {})

\* Shader::parse: clear, parseWords, process, sort; the result is "undefined" when
\* sort has undefined behaviour.
Parse(sh, data) ==
  LET Processed(r) ==
        IF ~r.ok THEN [result |-> "fail", shader |-> r.shader]
        ELSE [result |-> IF SortOverruns(r.shader) THEN "undefined" ELSE "ok",
              shader |-> Sort(r.shader)]
      Parsed(words) ==
        IF words.result /= "ok" THEN [result |-> words.result, shader |-> words.shader]
        ELSE Processed(Process(words.shader))
  IN Parsed(ParseWords(Clear(sh), data))

\* ---------------------------------------------------------------- Optimizer

\* struct Resolution; value is the int32_t reading of the union.
Resolution(type, value) == [type |-> type, value |-> value]

UnknownResolution == Resolution("Unknown", 0)

FromBool(pValue) == Resolution("Constant", IF pValue THEN 1 ELSE 0)

FromUint32(pValue) == Resolution("Constant", pValue)

FromInt32(pValue) == Resolution("Constant", pValue)

InstructionWordIndex(sh, pInstructionIndex) == sh.instructions[pInstructionIndex + 1]

ResultWordIndex(sh, pResultId) == InstructionWordIndex(sh, sh.results[pResultId + 1])

Deleted(c, wordIndex) == Word(c.optimizedWords, wordIndex) = UINT32_MAX

\* optimizerEliminateInstruction: every word of the instruction becomes the sentinel.
EliminateInstruction(c, sh, pInstructionIndex) ==
  LET wordIndex == InstructionWordIndex(sh, pInstructionIndex)
      wordCount == WordCountOf(Word(c.optimizedWords, wordIndex))
  IN [c EXCEPT !.optimizedWords = FillWords(@, wordIndex, wordIndex + wordCount, UINT32_MAX)]

\* What optimizerReduceResultDegrees does with one popped result id whose producer is
\* live: the out degree drops, and at zero the producer is deleted and its operands
\* are pushed.
ReduceResultDegree(c, sh, rResultStack, instructionIndex) ==
  LET wordIndex == InstructionWordIndex(sh, instructionIndex)
      degree == c.instructionOutDegrees[instructionIndex + 1] - 1
      c1 == [c EXCEPT !.instructionOutDegrees[instructionIndex + 1] = degree]
      opCode == OpCodeOf(Word(c.optimizedWords, wordIndex))
      wordCount == WordCountOf(Word(c.optimizedWords, wordIndex))
  IN IF degree = 0
       THEN [context |-> EliminateInstruction(c1, sh, instructionIndex),
             stack |-> rResultStack \o
                         OperandIds(c.optimizedWords, wordIndex, wordCount, opCode)]
     ELSE [context |-> c1, stack |-> rResultStack]

\* optimizerReduceResultDegrees: drains rResultStack from its back.
RECURSIVE ReduceResultDegrees(_, _, _)
ReduceResultDegrees(c, sh, rResultStack) ==
  IF rResultStack = <<>> THEN c
  ELSE LET resultId == rResultStack[Len(rResultStack)]
           rest == SubSeq(rResultStack, 1, Len(rResultStack) - 1)
           instructionIndex == sh.results[resultId + 1]
       IN IF Deleted(c, InstructionWordIndex(sh, instructionIndex))
            THEN ReduceResultDegrees(c, sh, rest)
          ELSE LET Reduced(r) == ReduceResultDegrees(r.context, sh, r.stack)
               IN Reduced(ReduceResultDegree(c, sh, rest, instructionIndex))

\* std::vector::resize: the first n elements are kept, new ones are value-initialised.
Resize(v, n, fill) == [k \in 1..n |-> IF k <= Len(v) THEN v[k] ELSE fill]

\* memcpy of n elements of src over the start of dst.
Memcpy(dst, src, n) == [k \in 1..Len(dst) |-> IF k <= n THEN src[k] ELSE dst[k]]

\* optimizerPrepareData that resizes the degree vectors without copying the shader's
\* degrees into them, and resizes resolutions without clearing it.
PrepareDataKeepingScratch(c, sh) ==
  [optimizedWords |->
     Memcpy(Resize(c.optimizedWords, sh.spirvWordCount, 0), sh.spirvWords,
            sh.spirvWordCount),
   instructionInDegrees |->
     IF c.instructionInDegrees = <<>> THEN sh.instructionInDegrees
     ELSE Resize(c.instructionInDegrees, Len(sh.instructionInDegrees), 0),
   instructionOutDegrees |->
     IF c.instructionOutDegrees = <<>> THEN sh.instructionOutDegrees
     ELSE Resize(c.instructionOutDegrees, Len(sh.instructionOutDegrees), 0),
   resolutions |-> Resize(c.resolutions, Len(sh.results), UnknownResolution)]

\* optimizerPrepareData that resizes the out degree vector without copying the
\* shader's out degrees into it.
PrepareDataWithoutOutDegrees(c, sh) ==
  [optimizedWords |->
     Memcpy(Resize(c.optimizedWords, sh.spirvWordCount, 0), sh.spirvWords,
            sh.spirvWordCount),
   instructionInDegrees |->
     Memcpy(Resize(c.instructionInDegrees, Len(sh.instructionInDegrees), 0),
            sh.instructionInDegrees, Len(sh.instructionInDegrees)),
   instructionOutDegrees |->
     Resize(c.instructionOutDegrees, Len(sh.instructionOutDegrees), 0),
   resolutions |-> Resize(<<>>, Len(sh.results), UnknownResolution)]

\* optimizerPrepareData on the vectors the context refers to: the thread-local ones
\* as the previous call on the thread left them, and the caller's buffer as the
\* caller hands it in.  resolutions is cleared before it is resized.
PrepareData(c, sh) ==
  [optimizedWords |->
     Memcpy(Resize(c.optimizedWords, sh.spirvWordCount, 0), sh.spirvWords,
            sh.spirvWordCount),
   instructionInDegrees |->
     Memcpy(Resize(c.instructionInDegrees, Len(sh.instructionInDegrees), 0),
            sh.instructionInDegrees, Len(sh.instructionInDegrees)),
   instructionOutDegrees |->
     Memcpy(Resize(c.instructionOutDegrees, Len(sh.instructionOutDegrees), 0),
            sh.instructionOutDegrees, Len(sh.instructionOutDegrees)),
   resolutions |-> Resize(<<>>, Len(sh.results), UnknownResolution)]

\* One override patched without the comparison of the value count with the literal
\* words of the OpSpecConstant.
PatchSpecializationConstantUnchecked(c, sh, newSpecConstant) ==
  LET specialization == sh.specializations[newSpecConstant.specId + 1]
      constantWordIndex ==
        InstructionWordIndex(sh, specialization.constantInstructionIndex)
      constantOpCode == OpCodeOf(Word(c.optimizedWords, constantWordIndex))
      constantWordCount == WordCountOf(Word(c.optimizedWords, constantWordIndex))
      values == newSpecConstant.values
      asConstant ==
        [k \in 1..Len(c.optimizedWords) |->
           IF k - 1 = constantWordIndex THEN HeaderWord(SpvOpConstant, constantWordCount)
           ELSE IF k - 1 >= constantWordIndex + 3
                   /\ k - 1 < constantWordIndex + constantWordCount
             THEN values[k - 1 - constantWordIndex - 2]
           ELSE c.optimizedWords[k]]
  IN IF UGreaterEqual(newSpecConstant.specId, Len(sh.specializations))
       THEN [ok |-> TRUE, context |-> c]
     ELSE IF specialization.constantInstructionIndex = UINT32_MAX
       THEN [ok |-> TRUE, context |-> c]
     ELSE IF constantOpCode = SpvOpSpecConstant
       THEN [ok |-> TRUE,
             context |-> EliminateInstruction([c EXCEPT !.optimizedWords = asConstant], sh,
                                              specialization.decorationInstructionIndex)]
     ELSE [ok |-> FALSE, context |-> c]

\* One override with the two continues of the loop turned into failures: an override
\* of a SpecId the table holds no constant for fails the call.
PatchSpecializationConstantRejectingUndecorated(c, sh, newSpecConstant) ==
  LET specialization == sh.specializations[newSpecConstant.specId + 1]
      constantWordIndex ==
        InstructionWordIndex(sh, specialization.constantInstructionIndex)
      constantOpCode == OpCodeOf(Word(c.optimizedWords, constantWordIndex))
      constantWordCount == WordCountOf(Word(c.optimizedWords, constantWordIndex))
      values == newSpecConstant.values
      asBool == SetWord(c.optimizedWords, constantWordIndex,
                  HeaderWord(IF values[1] /= 0 THEN SpvOpConstantTrue
                             ELSE SpvOpConstantFalse, constantWordCount))
      asConstant ==
        [k \in 1..Len(c.optimizedWords) |->
           IF k - 1 = constantWordIndex THEN HeaderWord(SpvOpConstant, constantWordCount)
           ELSE IF k - 1 >= constantWordIndex + 3
                   /\ k - 1 < constantWordIndex + constantWordCount
             THEN values[k - 1 - constantWordIndex - 2]
           ELSE c.optimizedWords[k]]
      patched(ws) ==
        [ok |-> TRUE,
         context |-> EliminateInstruction([c EXCEPT !.optimizedWords = ws], sh,
                                          specialization.decorationInstructionIndex)]
  IN IF UGreaterEqual(newSpecConstant.specId, Len(sh.specializations))
       THEN [ok |-> FALSE, context |-> c]
     ELSE IF specialization.constantInstructionIndex = UINT32_MAX
       THEN [ok |-> FALSE, context |-> c]
     ELSE IF constantOpCode \in {SpvOpSpecConstantTrue, SpvOpSpecConstantFalse}
       THEN patched(asBool)
     ELSE IF constantOpCode = SpvOpSpecConstant
       THEN IF constantWordCount <= 3 THEN [ok |-> FALSE, context |-> c]
            ELSE IF Len(values) /= constantWordCount - 3 THEN [ok |-> FALSE, context |-> c]
            ELSE patched(asConstant)
     ELSE [ok |-> FALSE, context |-> c]

\* One override of optimizerPatchSpecializationConstants.  "skip" is the continue of
\* an id the table does not hold.
PatchSpecializationConstant(c, sh, newSpecConstant) ==
  LET specialization == sh.specializations[newSpecConstant.specId + 1]
      constantWordIndex ==
        InstructionWordIndex(sh, specialization.constantInstructionIndex)
      constantOpCode == OpCodeOf(Word(c.optimizedWords, constantWordIndex))
      constantWordCount == WordCountOf(Word(c.optimizedWords, constantWordIndex))
      values == newSpecConstant.values
      asBool == SetWord(c.optimizedWords, constantWordIndex,
                  HeaderWord(IF values[1] /= 0 THEN SpvOpConstantTrue
                             ELSE SpvOpConstantFalse, constantWordCount))
      asConstant ==
        [k \in 1..Len(c.optimizedWords) |->
           IF k - 1 = constantWordIndex THEN HeaderWord(SpvOpConstant, constantWordCount)
           ELSE IF k - 1 >= constantWordIndex + 3
                   /\ k - 1 < constantWordIndex + constantWordCount
             THEN values[k - 1 - constantWordIndex - 2]
           ELSE c.optimizedWords[k]]
      patched(ws) ==
        [ok |-> TRUE,
         context |-> EliminateInstruction([c EXCEPT !.optimizedWords = ws], sh,
                                          specialization.decorationInstructionIndex)]
  IN IF UGreaterEqual(newSpecConstant.specId, Len(sh.specializations))
       THEN [ok |-> TRUE, context |-> c]
     ELSE IF specialization.constantInstructionIndex = UINT32_MAX
       THEN [ok |-> TRUE, context |-> c]
     ELSE IF constantOpCode \in {SpvOpSpecConstantTrue, SpvOpSpecConstantFalse}
       THEN patched(asBool)
     ELSE IF constantOpCode = SpvOpSpecConstant
       THEN IF constantWordCount <= 3 THEN [ok |-> FALSE, context |-> c]
            ELSE IF Len(values) /= constantWordCount - 3 THEN [ok |-> FALSE, context |-> c]
            ELSE patched(asConstant)
     ELSE [ok |-> FALSE, context |-> c]

RECURSIVE PatchSpecializationConstants(_, _, _)
PatchSpecializationConstants(c, sh, pNewSpecConstants) ==
  IF pNewSpecConstants = <<>> THEN [ok |-> TRUE, context |-> c]
  ELSE LET Patched(r) ==
             IF ~r.ok THEN r
             ELSE PatchSpecializationConstants(r.context, sh, Tail(pNewSpecConstants))
       IN Patched(PatchSpecializationConstant(c, sh, Head(pNewSpecConstants)))

\* ---- 32-bit arithmetic on words given by their int32_t bit patterns

\* a + b modulo 2^32.
AddWrap(a, b) ==
  IF a >= 0 /\ b >= 0 /\ a > 2147483647 - b
    THEN ((a - 2147483647) - 1) + ((b - 2147483647) - 1)
  ELSE IF a < 0 /\ b < 0 /\ a < (-2147483647 - 1) - b
    THEN ((a + 2147483647) + 1) + ((b + 2147483647) + 1)
  ELSE a + b

\* a - b modulo 2^32, as a + ~b + 1.
SubWrap(a, b) == AddWrap(AddWrap(a, -1 - b), 1)

\* a * b modulo 2^32: shift and add over the 32 bits of b.
RECURSIVE MulLoop(_, _, _)
MulLoop(a, b, n) ==
  IF n = 0 THEN 0
  ELSE AddWrap(IF b % 2 = 1 THEN a ELSE 0, MulLoop(AddWrap(a, a), b \div 2, n - 1))

MulWrap(a, b) == MulLoop(a, b, 32)

\* A bitwise operation given by its truth table f[bit of a][bit of b].
RECURSIVE BitwiseLoop(_, _, _, _)
BitwiseLoop(f, a, b, n) ==
  IF n = 0 THEN 0
  ELSE LET rest == BitwiseLoop(f, a \div 2, b \div 2, n - 1)
       IN AddWrap(AddWrap(rest, rest), f[a % 2][b % 2])

BitwiseOr(a, b) == BitwiseLoop([x \in 0..1 |-> [y \in 0..1 |-> IF x + y > 0 THEN 1 ELSE 0]], a, b, 32)

BitwiseAnd(a, b) == BitwiseLoop([x \in 0..1 |-> [y \in 0..1 |-> x * y]], a, b, 32)

BitwiseXor(a, b) == BitwiseLoop([x \in 0..1 |-> [y \in 0..1 |-> (x + y) % 2]], a, b, 32)

RECURSIVE Pow2(_)
Pow2(n) == IF n = 0 THEN 1 ELSE 2 * Pow2(n - 1)

\* uint32_t >> 1, as a non-negative number.
HalfUnsigned(a) == IF a >= 0 THEN a \div 2 ELSE ((a \div 2) + 1073741824) + 1073741824

\* uint32_t / uint32_t for a non-zero divisor.
UDivide(a, b) ==
  IF b < 0 THEN (IF UGreaterEqual(a, b) THEN 1 ELSE 0)
  ELSE IF a >= 0 THEN a \div b
  ELSE LET r == (a + 2147483647) + 1
           carry == IF (2147483647 % b) + 1 >= b - (r % b) THEN 1 ELSE 0
       IN AddWrap(AddWrap(2147483647 \div b, r \div b), carry)

\* int32_t / int32_t (truncating) where it is defined.
SDivide(a, b) ==
  LET q == (IF a < 0 THEN -a ELSE a) \div (IF b < 0 THEN -b ELSE b)
  IN IF (a < 0) = (b < 0) THEN q ELSE -q

\* A resolution the source computes with undefined behaviour: a division by zero,
\* INT_MIN / -1, a shift by 32 or more.
UndefinedResolution == Resolution("Undefined", 0)

\* Values a build that does not trap leaves as the result of such an operation.
UndefinedValues == {0, UINT32_MAX}

\* optimizerEvaluateResult: the resolution of pResultId from those of its operands.
EvaluateResult(c, sh, pResultId) ==
  LET ws == c.optimizedWords
      resultWordIndex == ResultWordIndex(sh, pResultId)
      opCode == OpCodeOf(Word(ws, resultWordIndex))
      wordCount == WordCountOf(Word(ws, resultWordIndex))
      resolution == c.resolutions[pResultId + 1]
      operand(k) == c.resolutions[Word(ws, resultWordIndex + 2 + k) + 1]
      first == operand(1).value
      second == operand(2).value
      typeWordIndex == ResultWordIndex(sh, Word(ws, resultWordIndex + 1))
  IN CASE opCode = SpvOpConstant ->
            IF OpCodeOf(Word(ws, typeWordIndex)) = SpvOpTypeInt
               /\ Word(ws, typeWordIndex + 2) = 32
              THEN IF Word(ws, typeWordIndex + 3) /= 0
                     THEN FromInt32(Word(ws, resultWordIndex + 3))
                   ELSE FromUint32(Word(ws, resultWordIndex + 3))
            ELSE [resolution EXCEPT !.type = "Variable"]
       [] opCode = SpvOpConstantTrue -> FromBool(TRUE)
       [] opCode = SpvOpConstantFalse -> FromBool(FALSE)
       [] opCode = SpvOpBitcast -> FromUint32(first)
       [] opCode = SpvOpIAdd -> FromUint32(AddWrap(first, second))
       [] opCode = SpvOpISub -> FromUint32(SubWrap(first, second))
       [] opCode = SpvOpIMul -> FromUint32(MulWrap(first, second))
       [] opCode = SpvOpUDiv ->
            IF second = 0 THEN UndefinedResolution ELSE FromUint32(UDivide(first, second))
       [] opCode = SpvOpSDiv ->
            IF second = 0 \/ (second = -1 /\ first = -2147483647 - 1)
              THEN UndefinedResolution
            ELSE FromUint32(SDivide(first, second))
       [] opCode = SpvOpLogicalEqual -> FromBool((first /= 0) = (second /= 0))
       [] opCode = SpvOpLogicalNotEqual -> FromBool((first /= 0) /= (second /= 0))
       [] opCode = SpvOpLogicalOr -> FromBool((first /= 0) \/ (second /= 0))
       [] opCode = SpvOpLogicalAnd -> FromBool((first /= 0) /\ (second /= 0))
       [] opCode = SpvOpLogicalNot -> FromBool(first = 0)
       [] opCode = SpvOpSelect -> IF first /= 0 THEN operand(2) ELSE operand(3)
       [] opCode = SpvOpIEqual -> FromBool(first = second)
       [] opCode = SpvOpINotEqual -> FromBool(first /= second)
       [] opCode = SpvOpUGreaterThan -> FromBool(ULess(second, first))
       [] opCode = SpvOpSGreaterThan -> FromBool(first > second)
       [] opCode = SpvOpUGreaterThanEqual -> FromBool(UGreaterEqual(first, second))
       [] opCode = SpvOpSGreaterThanEqual -> FromBool(first >= second)
       [] opCode = SpvOpULessThan -> FromBool(ULess(first, second))
       [] opCode = SpvOpSLessThan -> FromBool(first < second)
       [] opCode = SpvOpULessThanEqual -> FromBool(UGreaterEqual(second, first))
       [] opCode = SpvOpSLessThanEqual -> FromBool(first <= second)
       [] opCode = SpvOpShiftRightLogical ->
            IF second < 0 \/ second >= 32 THEN UndefinedResolution
            ELSE IF second = 0 THEN FromUint32(first)
            ELSE FromUint32(HalfUnsigned(first) \div Pow2(second - 1))
       [] opCode = SpvOpShiftRightArithmetic ->
            IF second < 0 \/ second >= 32 THEN UndefinedResolution
            ELSE IF second = 31 THEN FromInt32(IF first < 0 THEN -1 ELSE 0)
            ELSE FromInt32(first \div Pow2(second))
       [] opCode = SpvOpShiftLeftLogical ->
            IF second < 0 \/ second >= 32 THEN UndefinedResolution
            ELSE IF second = 31
              THEN FromUint32(IF first % 2 = 1 THEN -2147483647 - 1 ELSE 0)
            ELSE FromUint32(MulWrap(first, Pow2(second)))
       [] opCode = SpvOpBitwiseOr -> FromUint32(BitwiseOr(first, second))
       [] opCode = SpvOpBitwiseAnd -> FromUint32(BitwiseAnd(first, second))
       [] opCode = SpvOpBitwiseXor -> FromUint32(BitwiseXor(first, second))
       [] opCode = SpvOpNot -> FromUint32(-1 - first)
       [] opCode = SpvOpPhi ->
            IF wordCount = 5 THEN operand(1)
            ELSE [resolution EXCEPT !.type = "Variable"]
       [] OTHER -> [resolution EXCEPT !.type = "Variable"]

\* A block walk that leaves the block in place: what the in degree of the labels that
\* remain is measured against.
EliminateBlockLeavingIt(c, sh, i, labelStack, resultStack) ==
  [context |-> c, labelStack |-> labelStack, resultStack |-> resultStack]

\* The block walk of optimizerReduceLabelDegree, from instruction i: every live
\* instruction up to and including the first terminator pushes its labels and its
\* operands and is deleted.
RECURSIVE EliminateBlock(_, _, _, _, _)
EliminateBlock(c, sh, i, labelStack, resultStack) ==
  IF i >= Len(sh.instructions)
    THEN [context |-> c, labelStack |-> labelStack, resultStack |-> resultStack]
  ELSE
    LET wordIndex == InstructionWordIndex(sh, i)
        opCode == OpCodeOf(Word(c.optimizedWords, wordIndex))
        wordCount == WordCountOf(Word(c.optimizedWords, wordIndex))
        Eliminated(c1, labels, results) ==
          IF SpvOpIsTerminator(opCode)
            THEN [context |-> c1, labelStack |-> labels, resultStack |-> results]
          ELSE EliminateBlock(c1, sh, i + 1, labels, results)
    IN IF Deleted(c, wordIndex) THEN EliminateBlock(c, sh, i + 1, labelStack, resultStack)
       ELSE Eliminated(
              EliminateInstruction(c, sh, i),
              labelStack \o LabelIds(c.optimizedWords, wordIndex, wordCount, opCode),
              resultStack \o OperandIds(c.optimizedWords, wordIndex, wordCount, opCode))

\* The loop of optimizerReduceLabelDegree over labelStack, drained from its back.
RECURSIVE ReduceLabelLoop(_, _, _, _)
ReduceLabelLoop(c, sh, labelStack, resultStack) ==
  IF labelStack = <<>> THEN [context |-> c, resultStack |-> resultStack]
  ELSE
    LET labelId == labelStack[Len(labelStack)]
        rest == SubSeq(labelStack, 1, Len(labelStack) - 1)
        instructionIndex == sh.results[labelId + 1]
        degree == c.instructionInDegrees[instructionIndex + 1] - 1
        Eliminated(block) ==
          ReduceLabelLoop(block.context, sh, block.labelStack, block.resultStack)
        Reduced(c1) ==
          IF degree = 0
            THEN Eliminated(EliminateBlock(c1, sh, instructionIndex, rest, resultStack))
          ELSE ReduceLabelLoop(c1, sh, rest, resultStack)
    IN IF c.instructionInDegrees[instructionIndex + 1] = 0
         THEN ReduceLabelLoop(c, sh, rest, resultStack)
       ELSE Reduced([c EXCEPT !.instructionInDegrees[instructionIndex + 1] = degree])

\* optimizerReduceLabelDegree
ReduceLabelDegree(c, sh, pFirstLabelId) ==
  LET Reduced(r) == ReduceResultDegrees(r.context, sh, r.resultStack)
  IN Reduced(ReduceLabelLoop(c, sh, <<pFirstLabelId>>, <<>>))

\* optimizerEvaluateTerminator, OpBranchConditional with a constant operator.
EvaluateBranchConditional(c, sh, wordIndex, wordCount, operatorValue) ==
  LET ws == c.optimizedWords
      defaultLabelId == IF operatorValue /= 0 THEN Word(ws, wordIndex + 2)
                        ELSE Word(ws, wordIndex + 3)
      otherLabelId == IF operatorValue /= 0 THEN Word(ws, wordIndex + 3)
                      ELSE Word(ws, wordIndex + 2)
      mergeWordIndex == wordIndex - 3
      Patched(c2, patchWordIndex) ==
        [c2 EXCEPT !.optimizedWords =
           FillWords(SetWord(SetWord(@, patchWordIndex, HeaderWord(SpvOpBranch, 2)),
                             patchWordIndex + 1, defaultLabelId),
                     patchWordIndex + 2, wordIndex + wordCount, UINT32_MAX)]
      Reduced(c1) ==
        IF OpCodeOf(Word(c1.optimizedWords, mergeWordIndex)) = SpvOpSelectionMerge
          THEN Patched(ReduceLabelDegree(c1, sh, Word(c1.optimizedWords, mergeWordIndex + 1)),
                       mergeWordIndex)
        ELSE Patched(c1, wordIndex)
  IN Reduced(ReduceLabelDegree(c, sh, otherLabelId))

\* The case loop of an OpSwitch, from word i: the label of a matching case is
\* remembered, the label of any other case is reduced.
RECURSIVE SwitchLoop(_, _, _, _, _, _, _)
SwitchLoop(c, sh, wordIndex, wordCount, operatorValue, i, defaultLabelId) ==
  IF i >= wordCount THEN [context |-> c, defaultLabelId |-> defaultLabelId]
  ELSE IF operatorValue = Word(c.optimizedWords, wordIndex + i)
    THEN SwitchLoop(c, sh, wordIndex, wordCount, operatorValue, i + 2,
                    Word(c.optimizedWords, wordIndex + i + 1))
  ELSE SwitchLoop(ReduceLabelDegree(c, sh, Word(c.optimizedWords, wordIndex + i + 1)),
                  sh, wordIndex, wordCount, operatorValue, i + 2, defaultLabelId)

\* The chosen default constant gains a use once the switch is rewritten.
IncreaseDefaultConstantDegree(c, sh) ==
  [c EXCEPT !.instructionOutDegrees[sh.results[sh.defaultSwitchOpConstantInt + 1] + 1] =
              @ + 1]

\* The OpSwitch fold with the default label left alone when a case matched.
EvaluateSwitchKeepingDefault(c, sh, wordIndex, wordCount, operatorValue) ==
  LET Patched(c2, defaultLabelId) ==
        IncreaseDefaultConstantDegree(
          [c2 EXCEPT !.optimizedWords =
             FillWords(SetWord(SetWord(SetWord(@, wordIndex, HeaderWord(SpvOpSwitch, 3)),
                                       wordIndex + 1, sh.defaultSwitchOpConstantInt),
                               wordIndex + 2, defaultLabelId),
                       wordIndex + 3, wordIndex + wordCount, UINT32_MAX)], sh)
      Cases(cases) ==
        IF cases.defaultLabelId = UINT32_MAX
          THEN Patched(cases.context, Word(cases.context.optimizedWords, wordIndex + 2))
        ELSE Patched(cases.context, cases.defaultLabelId)
  IN Cases(SwitchLoop(c, sh, wordIndex, wordCount, operatorValue, 3, UINT32_MAX))

\* optimizerEvaluateTerminator, OpSwitch with a constant operator.
EvaluateSwitch(c, sh, wordIndex, wordCount, operatorValue) ==
  LET Patched(c2, defaultLabelId) ==
        IncreaseDefaultConstantDegree(
          [c2 EXCEPT !.optimizedWords =
             FillWords(SetWord(SetWord(SetWord(@, wordIndex, HeaderWord(SpvOpSwitch, 3)),
                                       wordIndex + 1, sh.defaultSwitchOpConstantInt),
                               wordIndex + 2, defaultLabelId),
                       wordIndex + 3, wordIndex + wordCount, UINT32_MAX)], sh)
      Cases(cases) ==
        IF cases.defaultLabelId = UINT32_MAX
          THEN Patched(cases.context, Word(cases.context.optimizedWords, wordIndex + 2))
        ELSE Patched(ReduceLabelDegree(cases.context, sh,
                                       Word(cases.context.optimizedWords, wordIndex + 2)),
                     cases.defaultLabelId)
  IN Cases(SwitchLoop(c, sh, wordIndex, wordCount, operatorValue, 3, UINT32_MAX))

\* optimizerEvaluateTerminator with the OpBranchConditional case left out.
EvaluateTerminatorOfSwitchOnly(c, sh, pInstructionIndex) ==
  LET wordIndex == InstructionWordIndex(sh, pInstructionIndex)
      opCode == OpCodeOf(Word(c.optimizedWords, wordIndex))
      wordCount == WordCountOf(Word(c.optimizedWords, wordIndex))
      operatorId == Word(c.optimizedWords, wordIndex + 1)
      operatorResolution == c.resolutions[operatorId + 1]
  IN IF operatorResolution.type /= "Constant" \/ opCode /= SpvOpSwitch THEN c
     ELSE ReduceResultDegrees(
            EvaluateSwitch(c, sh, wordIndex, wordCount, operatorResolution.value),
            sh, <<operatorId>>)

\* optimizerEvaluateTerminator
EvaluateTerminator(c, sh, pInstructionIndex) ==
  LET wordIndex == InstructionWordIndex(sh, pInstructionIndex)
      opCode == OpCodeOf(Word(c.optimizedWords, wordIndex))
      wordCount == WordCountOf(Word(c.optimizedWords, wordIndex))
      operatorId == Word(c.optimizedWords, wordIndex + 1)
      operatorResolution == c.resolutions[operatorId + 1]
  IN IF operatorResolution.type /= "Constant" THEN c
     ELSE ReduceResultDegrees(
            IF opCode = SpvOpBranchConditional
              THEN EvaluateBranchConditional(c, sh, wordIndex, wordCount,
                                             operatorResolution.value)
            ELSE IF opCode = SpvOpSwitch
              THEN EvaluateSwitch(c, sh, wordIndex, wordCount, operatorResolution.value)
            ELSE c,
            sh, <<operatorId>>)

\* The backwards search of optimizerCompactPhi for the label of the block that holds
\* instruction i; instruction 0 is never looked at.  UINT32_MAX when none is found.
RECURSIVE EnclosingLabelId(_, _, _)
EnclosingLabelId(c, sh, searchInstructionIndex) ==
  IF searchInstructionIndex <= 0 THEN UINT32_MAX
  ELSE LET searchWordIndex == InstructionWordIndex(sh, searchInstructionIndex)
       IN IF OpCodeOf(Word(c.optimizedWords, searchWordIndex)) = SpvOpLabel
            THEN Word(c.optimizedWords, searchWordIndex + 1)
          ELSE EnclosingLabelId(c, sh, searchInstructionIndex - 1)

\* Whether the first terminator found from instruction j on names instructionLabelId.
RECURSIVE FoundBranchToThisBlock(_, _, _, _)
FoundBranchToThisBlock(c, sh, j, instructionLabelId) ==
  IF j >= Len(sh.instructions) THEN FALSE
  ELSE LET searchWordIndex == InstructionWordIndex(sh, j)
           searchOpCode == OpCodeOf(Word(c.optimizedWords, searchWordIndex))
           searchWordCount == WordCountOf(Word(c.optimizedWords, searchWordIndex))
           Names(labels) == \E k \in 1..Len(labels) : labels[k] = instructionLabelId
       IN IF SpvOpIsTerminator(searchOpCode)
            THEN Names(LabelIds(c.optimizedWords, searchWordIndex, searchWordCount,
                                searchOpCode))
          ELSE FoundBranchToThisBlock(c, sh, j + 1, instructionLabelId)

\* The test of optimizerCompactPhi without the look at the parent's terminator.
KeepPhiPairOfLiveParent(c, sh, wordIndex, i, instructionLabelId) ==
  ~Deleted(c, InstructionWordIndex(sh, sh.results[Word(c.optimizedWords,
                                                      wordIndex + i + 1) + 1]))

\* Whether optimizerCompactPhi keeps the (value, parent) pair at words i, i + 1.
KeepPhiPair(c, sh, wordIndex, i, instructionLabelId) ==
  LET labelId == Word(c.optimizedWords, wordIndex + i + 1)
      labelInstructionIndex == sh.results[labelId + 1]
  IN /\ ~Deleted(c, InstructionWordIndex(sh, labelInstructionIndex))
     /\ FoundBranchToThisBlock(c, sh, labelInstructionIndex, instructionLabelId)

\* The pair loop of optimizerCompactPhi from word i: kept pairs move down to
\* newWordCount, the values of dropped pairs are pushed.
RECURSIVE CompactPhiLoop(_, _, _, _, _, _, _, _)
CompactPhiLoop(c, sh, wordIndex, wordCount, instructionLabelId, i, newWordCount, resultStack) ==
  IF i >= wordCount
    THEN [context |-> c, newWordCount |-> newWordCount, resultStack |-> resultStack]
  ELSE IF KeepPhiPair(c, sh, wordIndex, i, instructionLabelId)
    THEN CompactPhiLoop(
           [c EXCEPT !.optimizedWords =
              SetWord(SetWord(@, wordIndex + newWordCount,
                              Word(c.optimizedWords, wordIndex + i)),
                      wordIndex + newWordCount + 1,
                      Word(c.optimizedWords, wordIndex + i + 1))],
           sh, wordIndex, wordCount, instructionLabelId, i + 2, newWordCount + 2,
           resultStack)
  ELSE CompactPhiLoop(c, sh, wordIndex, wordCount, instructionLabelId, i + 2,
                      newWordCount,
                      Append(resultStack, Word(c.optimizedWords, wordIndex + i)))

\* optimizerCompactPhi
CompactPhi(c, sh, pInstructionIndex) ==
  LET wordIndex == InstructionWordIndex(sh, pInstructionIndex)
      wordCount == WordCountOf(Word(c.optimizedWords, wordIndex))
      Compacted(pairs) ==
        ReduceResultDegrees(
          [pairs.context EXCEPT !.optimizedWords =
             FillWords(SetWord(@, wordIndex, HeaderWord(SpvOpPhi, pairs.newWordCount)),
                       wordIndex + pairs.newWordCount, wordIndex + wordCount,
                       UINT32_MAX)],
          sh, pairs.resultStack)
      Labelled(instructionLabelId) ==
        IF instructionLabelId = UINT32_MAX THEN [ok |-> FALSE, context |-> c]
        ELSE [ok |-> TRUE,
              context |-> Compacted(CompactPhiLoop(c, sh, wordIndex, wordCount,
                                                   instructionLabelId, 3, 3, <<>>))]
  IN Labelled(EnclosingLabelId(c, sh, pInstructionIndex))

\* The operand check of optimizerRunEvaluationPass over the operand ids, in order:
\* "unsolved" fails the run, "variable" and "constant" decide how the result resolves.
RECURSIVE OperandsAreConstant(_, _, _)
OperandsAreConstant(c, opCode, ids) ==
  IF ids = <<>> THEN "constant"
  ELSE LET type == c.resolutions[Head(ids) + 1].type
       IN IF opCode /= SpvOpPhi /\ type = "Unknown" THEN "unsolved"
          ELSE IF type = "Variable" THEN "variable"
          ELSE OperandsAreConstant(c, opCode, Tail(ids))

\* One iteration of the loop of optimizerRunEvaluationPass, for instruction
\* instructionIndex of the order.
EvaluateInstruction(c, sh, instructionIndex) ==
  LET wordIndex == InstructionWordIndex(sh, instructionIndex)
      opCode == OpCodeOf(Word(c.optimizedWords, wordIndex))
      Resolved(c1, resultId, operands) ==
        IF operands = "unsolved" THEN [ok |-> FALSE, context |-> c1]
        ELSE IF operands = "constant"
          THEN [ok |-> TRUE,
                context |-> [c1 EXCEPT !.resolutions[resultId + 1] =
                                         EvaluateResult(c1, sh, resultId)]]
        ELSE [ok |-> TRUE,
              context |-> [c1 EXCEPT !.resolutions[resultId + 1].type = "Variable"]]
      Patched(c1, patchedWordCount) ==
        Resolved(c1,
                 Word(c1.optimizedWords, wordIndex + (IF SpvHasType(opCode) THEN 2 ELSE 1)),
                 OperandsAreConstant(c1, opCode,
                   OperandIds(c1.optimizedWords, wordIndex, patchedWordCount, opCode)))
      Compacted(phi) ==
        IF ~phi.ok THEN [ok |-> FALSE, context |-> c]
        ELSE Patched(phi.context, WordCountOf(Word(phi.context.optimizedWords, wordIndex)))
  IN IF Deleted(c, wordIndex) THEN [ok |-> TRUE, context |-> c]
     ELSE IF SpvHasResult(opCode)
       THEN Compacted(IF opCode = SpvOpPhi THEN CompactPhi(c, sh, instructionIndex)
                      ELSE [ok |-> TRUE, context |-> c])
     ELSE IF opCode \in {SpvOpBranchConditional, SpvOpSwitch}
       THEN [ok |-> TRUE, context |-> EvaluateTerminator(c, sh, instructionIndex)]
     ELSE [ok |-> TRUE, context |-> c]

\* What one iteration of the evaluation loop can do.  When optimizerEvaluateResult
\* divides by zero, divides INT_MIN by -1 or shifts by 32 or more, the behaviour is
\* undefined: the process faults, or goes on with some value as the result.
EvaluationOutcomes(c, sh, instructionIndex) ==
  LET Defined(r, value) ==
        [ok |-> r.ok, fault |-> FALSE,
         context |-> [r.context EXCEPT !.resolutions =
                        [k \in 1..Len(r.context.resolutions) |->
                           IF r.context.resolutions[k].type = "Undefined"
                             THEN FromUint32(value)
                           ELSE r.context.resolutions[k]]]]
      Outcomes(r) ==
        IF \E k \in 1..Len(r.context.resolutions) :
             r.context.resolutions[k].type = "Undefined"
          THEN {[ok |-> FALSE, fault |-> TRUE, context |-> c]}
               \cup {Defined(r, value) : value \in UndefinedValues}
        ELSE {[ok |-> r.ok, fault |-> FALSE, context |-> r.context]}
  IN Outcomes(EvaluateInstruction(c, sh, instructionIndex))

\* A cleanup that keeps the decoration whatever became of its target.
RemoveUnusedDecorationKept(c, sh, decorationInstructionIndex) == c

\* One decoration of optimizerRemoveUnusedDecorations.
RemoveUnusedDecoration(c, sh, decorationInstructionIndex) ==
  LET wordIndex == InstructionWordIndex(sh, decorationInstructionIndex)
      resultId == Word(c.optimizedWords, wordIndex + 1)
  IN IF resultId = UINT32_MAX THEN c
     ELSE IF Deleted(c, ResultWordIndex(sh, resultId))
       THEN EliminateInstruction(c, sh, decorationInstructionIndex)
     ELSE c

RECURSIVE RemoveDecorationsLoop(_, _, _)
RemoveDecorationsLoop(c, sh, k) ==
  IF k > Len(sh.decorations) THEN c
  ELSE RemoveDecorationsLoop(RemoveUnusedDecoration(c, sh, sh.decorations[k]), sh, k + 1)

\* optimizerRemoveUnusedDecorations
RemoveUnusedDecorations(c, sh, options) ==
  IF ~options.removeDeadCode THEN c ELSE RemoveDecorationsLoop(c, sh, 1)

\* The copy loop of optimizerCompactData: optimizedWords[cursor++] = optimizedWords[from++],
\* one word after the other, count times.
RECURSIVE CopyWords(_, _, _, _)
CopyWords(ws, cursor, from, count) ==
  IF count = 0 THEN ws
  ELSE CopyWords(SetWord(ws, cursor, Word(ws, from)), cursor + 1, from + 1, count - 1)

\* optimizerCompactData's instruction step with the ignored opcodes skipped whatever
\* the options say.
CompactInstructionIgnoringOptions(c, sh, options, i, optimizedWordCount) ==
  LET wordIndex == InstructionWordIndex(sh, i)
      opCode == OpCodeOf(Word(c.optimizedWords, wordIndex))
      wordCount == WordCountOf(Word(c.optimizedWords, wordIndex))
  IN IF Deleted(c, wordIndex) \/ SpvIsIgnored(opCode)
       THEN [optimizedWords |-> c.optimizedWords, optimizedWordCount |-> optimizedWordCount]
     ELSE [optimizedWords |-> CopyWords(c.optimizedWords, optimizedWordCount, wordIndex,
                                        wordCount),
           optimizedWordCount |-> optimizedWordCount + wordCount]

\* One instruction of optimizerCompactData: a live instruction that is not ignored
\* is copied down to the cursor optimizedWordCount.
CompactInstruction(c, sh, options, i, optimizedWordCount) ==
  LET wordIndex == InstructionWordIndex(sh, i)
      opCode == OpCodeOf(Word(c.optimizedWords, wordIndex))
      wordCount == WordCountOf(Word(c.optimizedWords, wordIndex))
  IN IF Deleted(c, wordIndex) \/ (options.removeDeadCode /\ SpvIsIgnored(opCode))
       THEN [optimizedWords |-> c.optimizedWords, optimizedWordCount |-> optimizedWordCount]
     ELSE [optimizedWords |-> CopyWords(c.optimizedWords, optimizedWordCount, wordIndex,
                                        wordCount),
           optimizedWordCount |-> optimizedWordCount + wordCount]

\* ---------------------------------------------------------------- inputs

\* The largest value an override carries; overrides take their values in 0..MaxSpecValue.
MaxSpecValue == 2

\* The modules given to parse are built from these ids.
Id ==
  [main |-> 1, void |-> 2, fn |-> 3, bool |-> 4, uint |-> 5, s |-> 6, c0 |-> 7, c1 |-> 8,
   ptrOut |-> 9, out |-> 10, ptrIn |-> 11, in |-> 12, entry |-> 13, ld |-> 14, g |-> 15,
   A |-> 16, B |-> 17, M |-> 18, va |-> 19, r |-> 20, v |-> 21, L1 |-> 22, L2 |-> 23,
   D |-> 24, H |-> 25, C |-> 26, E |-> 27, g2 |-> 28, free |-> 29, bound |-> 30]

\* The SpecId the modules decorate their specialization constant with.
SpecIds == [present |-> 7, unused |-> 3, beyond |-> 9]

Instr(pOpCode, operands) == <<HeaderWord(pOpCode, Len(operands) + 1)>> \o operands

\* "main" and its terminating null, as two little-endian words.
MainString == <<1852399981, 0>>

RECURSIVE Flatten(_)
Flatten(ss) == IF ss = <<>> THEN <<>> ELSE Head(ss) \o Flatten(Tail(ss))

\* The words up to the first function: header, entry point, optional debug
\* instructions, decorations, types, constants and variables.  specTarget is the id
\* the SpecId decoration names; specKind is how Id.s is declared.
Preamble(meta, specTarget, specKind, constGuard) ==
  Flatten(<<
    <<SpvMagicNumber, 65536, 0, Id.bound, 0>>,
    Instr(SpvOpCapability, <<1>>),
    Instr(SpvOpMemoryModel, <<0, 1>>),
    Instr(SpvOpEntryPoint, <<4, Id.main>> \o MainString \o <<Id.out, Id.in>>),
    Instr(SpvOpExecutionMode, <<Id.main, 7>>),
    IF meta THEN Instr(SpvOpSource, <<2, 450>>) \o
                 Instr(SpvOpName, <<Id.main>> \o MainString) \o
                 Instr(SpvOpMemberName, <<Id.fn, 0>> \o MainString)
    ELSE <<>>,
    Instr(SpvOpDecorate, <<specTarget, SpvDecorationSpecId, SpecIds.present>>),
    Instr(SpvOpDecorate, <<Id.out, 30, 0>>),
    Instr(SpvOpDecorate, <<Id.in, 30, 0>>),
    Instr(SpvOpTypeVoid, <<Id.void>>),
    Instr(SpvOpTypeFunction, <<Id.fn, Id.void>>),
    Instr(SpvOpTypeBool, <<Id.bool>>),
    Instr(SpvOpTypeInt, <<Id.uint, 32, 0>>),
    IF specKind = "true" THEN Instr(SpvOpSpecConstantTrue, <<Id.bool, Id.s>>)
    ELSE Instr(SpvOpSpecConstant, <<Id.uint, Id.s, 0>>),
    Instr(SpvOpConstant, <<Id.uint, Id.c0, 0>>),
    Instr(SpvOpConstant, <<Id.uint, Id.c1, 1>>),
    IF constGuard THEN Instr(SpvOpConstantTrue, <<Id.bool, Id.g>>) ELSE <<>>,
    Instr(SpvOpTypePointer, <<Id.ptrOut, 3, Id.uint>>),
    Instr(SpvOpVariable, <<Id.ptrOut, Id.out, 3>>),
    Instr(SpvOpTypePointer, <<Id.ptrIn, 1, Id.uint>>),
    Instr(SpvOpVariable, <<Id.ptrIn, Id.in, 1>>),
    Instr(SpvOpFunction, <<Id.void, Id.main, 0, Id.fn>>),
    Instr(SpvOpLabel, <<Id.entry>>),
    Instr(SpvOpLoad, <<Id.uint, Id.ld, Id.in>>)
  >>)

\* The boolean guard Id.g computed in the entry block from x (a spec constant or a
\* loaded value); a constant guard is declared in the preamble instead.
Guard(guard) ==
  IF guard = "spec" THEN Instr(SpvOpINotEqual, <<Id.bool, Id.g, Id.s, Id.c0>>)
  ELSE IF guard = "var" THEN Instr(SpvOpINotEqual, <<Id.bool, Id.g, Id.ld, Id.c0>>)
  ELSE <<>>

Epilogue == Instr(SpvOpReturn, <<>>) \o Instr(SpvOpFunctionEnd, <<>>)

\* if (g) { va = ld + 1 } merged by r = phi(va from A, c0 from B [, c1 from entry]).
CondBody(guard, stalePhi) ==
  Flatten(<<
    Guard(guard),
    Instr(SpvOpSelectionMerge, <<Id.M, 0>>),
    Instr(SpvOpBranchConditional, <<Id.g, Id.A, Id.B>>),
    Instr(SpvOpLabel, <<Id.A>>),
    Instr(SpvOpIAdd, <<Id.uint, Id.va, Id.ld, Id.c1>>),
    Instr(SpvOpBranch, <<Id.M>>),
    Instr(SpvOpLabel, <<Id.B>>),
    Instr(SpvOpBranch, <<Id.M>>),
    Instr(SpvOpLabel, <<Id.M>>),
    Instr(SpvOpPhi, <<Id.uint, Id.r, Id.va, Id.A, Id.c0, Id.B>> \o
                    (IF stalePhi THEN <<Id.c1, Id.entry>> ELSE <<>>)),
    Instr(SpvOpStore, <<Id.out, Id.r>>),
    Epilogue
  >>)

\* The same selection with the guard used directly: Id.s is an OpSpecConstantTrue.
SpecTrueBody ==
  Flatten(<<
    Instr(SpvOpSelectionMerge, <<Id.M, 0>>),
    Instr(SpvOpBranchConditional, <<Id.s, Id.A, Id.B>>),
    Instr(SpvOpLabel, <<Id.A>>),
    Instr(SpvOpStore, <<Id.out, Id.c1>>),
    Instr(SpvOpBranch, <<Id.M>>),
    Instr(SpvOpLabel, <<Id.B>>),
    Instr(SpvOpBranch, <<Id.M>>),
    Instr(SpvOpLabel, <<Id.M>>),
    Epilogue
  >>)

\* switch (x + 1) { case 1: out = c0; case 2: out = v; default: }.  With a constant
\* guard the selector is Id.c1 itself.
SwitchBody(guard) ==
  LET x == IF guard = "spec" THEN Id.s ELSE Id.ld
      selector == IF guard = "const" THEN Id.c1 ELSE Id.v
  IN Flatten(<<
       IF guard = "const" THEN <<>>
       ELSE Instr(SpvOpIAdd, <<Id.uint, Id.v, x, Id.c1>>),
       Instr(SpvOpSelectionMerge, <<Id.M, 0>>),
       Instr(SpvOpSwitch, <<selector, Id.D, 1, Id.L1, 2, Id.L2>>),
       Instr(SpvOpLabel, <<Id.L1>>),
       Instr(SpvOpStore, <<Id.out, Id.c0>>),
       Instr(SpvOpBranch, <<Id.M>>),
       Instr(SpvOpLabel, <<Id.L2>>),
       Instr(SpvOpStore, <<Id.out, selector>>),
       Instr(SpvOpBranch, <<Id.M>>),
       Instr(SpvOpLabel, <<Id.D>>),
       Instr(SpvOpBranch, <<Id.M>>),
       Instr(SpvOpLabel, <<Id.M>>),
       Epilogue
     >>)

\* if (g) { va = ld + 1; loop { if (g2) { out = va; continue } else break } }.
LoopBody(guard) ==
  Flatten(<<
    Guard(guard),
    Instr(SpvOpINotEqual, <<Id.bool, Id.g2, Id.ld, Id.c1>>),
    Instr(SpvOpSelectionMerge, <<Id.M, 0>>),
    Instr(SpvOpBranchConditional, <<Id.g, Id.A, Id.M>>),
    Instr(SpvOpLabel, <<Id.A>>),
    Instr(SpvOpIAdd, <<Id.uint, Id.va, Id.ld, Id.c1>>),
    Instr(SpvOpBranch, <<Id.H>>),
    Instr(SpvOpLabel, <<Id.H>>),
    Instr(SpvOpLoopMerge, <<Id.E, Id.C, 0>>),
    Instr(SpvOpBranchConditional, <<Id.g2, Id.C, Id.E>>),
    Instr(SpvOpLabel, <<Id.C>>),
    Instr(SpvOpStore, <<Id.out, Id.va>>),
    Instr(SpvOpBranch, <<Id.H>>),
    Instr(SpvOpLabel, <<Id.E>>),
    Instr(SpvOpBranch, <<Id.M>>),
    Instr(SpvOpLabel, <<Id.M>>),
    Epilogue
  >>)

\* if (g) { out = c1; return } else { discard }, with no selection merge.
ReturnBody(guard) ==
  Flatten(<<
    Guard(guard),
    Instr(SpvOpBranchConditional, <<Id.g, Id.A, Id.B>>),
    Instr(SpvOpLabel, <<Id.A>>),
    Instr(SpvOpStore, <<Id.out, Id.c1>>),
    Instr(SpvOpReturn, <<>>),
    Instr(SpvOpLabel, <<Id.B>>),
    Instr(SpvOpKill, <<>>),
    Instr(SpvOpFunctionEnd, <<>>)
  >>)

Shapes == {"cond", "switch", "loop", "return"}

Guards == {"spec", "const", "var"}

Body(shape, guard) ==
  CASE shape = "cond" -> CondBody(guard, FALSE)
    [] shape = "switch" -> SwitchBody(guard)
    [] shape = "loop" -> LoopBody(guard)
    [] shape = "return" -> ReturnBody(guard)

\* A selection guarded by an OpSpecConstantTrue that SpecIds.present decorates.
SpecTrueModule == Preamble(FALSE, Id.s, "true", FALSE) \o SpecTrueBody

\* The SpecId decoration names the plain constant Id.c1.
DecoratedConstantModule == Preamble(FALSE, Id.c1, "int", FALSE) \o CondBody("spec", FALSE)

\* The phi has a parent, the entry block, that does not branch to its block.
StalePhiModule == Preamble(FALSE, Id.s, "int", FALSE) \o CondBody("var", TRUE)

\* The modules: every shape with every guard, with and without debug instructions,
\* and the three above.
Modules ==
  {Preamble(meta, Id.s, "int", guard = "const" /\ shape /= "switch") \o Body(shape, guard) :
     meta \in BOOLEAN, shape \in Shapes, guard \in Guards}
  \cup {SpecTrueModule, DecoratedConstantModule, StalePhiModule}

\* The override lists: none, one override of a value, one with a value too many, for
\* a SpecId the module decorates, one the table holds no entry for and one past its end.
SpecConstant(specId, values) == [specId |-> specId, values |-> values]

OverrideValues == {<<x>> : x \in 0..MaxSpecValue} \cup {<<0, 0>>}

\* The overrides of a SpecId no module decorates, the one without values included.
UndecoratedOverrides ==
  {SpecConstant(specId, values) :
     specId \in {SpecIds.unused, SpecIds.beyond}, values \in {<<>>, <<1>>}}

\* Besides, lists of two: an override that applies followed by one that fails, and a
\* list followed by an override of a SpecId no module decorates.
OverrideLists ==
  {<<>>}
  \cup {<<SpecConstant(specId, values)>> :
          specId \in {SpecIds.present, SpecIds.unused, SpecIds.beyond},
          values \in OverrideValues}
  \cup {<<SpecConstant(SpecIds.present, <<1>>), SpecConstant(SpecIds.present, values)>> :
          values \in {<<2>>, <<0, 0>>}}
  \cup {<<o>> : o \in UndecoratedOverrides}
  \cup {<<SpecConstant(SpecIds.present, values), o>> :
          values \in {<<1>>, <<0, 0>>}, o \in UndecoratedOverrides}

Options == [removeDeadCode : BOOLEAN]

\* ---------------------------------------------------------------- state

VARIABLES
  data,                \* the module handed to Shader::parse
  shader,              \* the Shader
  parseResult,         \* "none", or how Shader::parse ended: "ok", "fail", "hang", "fault"
  newSpecConstants,    \* the overrides of the current Optimizer::run
  options,             \* its Options
  context,             \* its OptimizerContext; optimizedWords is the caller's buffer
  orderIndex,          \* i of the loop of optimizerRunEvaluationPass
  phiIndex,            \* position of the loop of optimizerCompactPhis in shader.phis
  compactIndex,        \* i of the loop of optimizerCompactData
  optimizedWordCount,  \* the write cursor of optimizerCompactData
  previous,            \* the last Optimizer::run that returned on this thread
  threads,             \* the Optimizer::run calls of the threads that share the shader
  pc                   \* where the caller is: parsing, in a pass of run, or finished

vars ==
  <<data, shader, parseResult, newSpecConstants, options, context, orderIndex, phiIndex,
    compactIndex, optimizedWordCount, previous, threads, pc>>

\* The caller's empty output buffer and the untouched thread-local vectors.
EmptyContext ==
  [optimizedWords |-> <<>>, instructionInDegrees |-> <<>>, instructionOutDegrees |-> <<>>,
   resolutions |-> <<>>]

DefaultOptions == [removeDeadCode |-> TRUE]

\* No Optimizer::run has returned on the thread yet.
NoCall == [data |-> <<>>, ok |-> TRUE]

\* The threads that call Optimizer::run on the shared shader.
Threads == {1, 2}

\* A thread that is not in Optimizer::run: its output buffer and its thread_local
\* vectors are empty.
IdleThread ==
  [pc |-> "idle", newSpecConstants |-> <<>>, options |-> DefaultOptions,
   optimizedWords |-> <<>>, instructionInDegrees |-> <<>>, instructionOutDegrees |-> <<>>,
   resolutions |-> <<>>]

IdleThreads == [t \in Threads |-> IdleThread]

Init ==
  /\ data \in Modules
  /\ shader = EmptyShader
  /\ parseResult = "none"
  /\ newSpecConstants = <<>>
  /\ options = DefaultOptions
  /\ context = EmptyContext
  /\ orderIndex = 0
  /\ phiIndex = 0
  /\ compactIndex = 0
  /\ optimizedWordCount = 0
  /\ previous = NoCall
  /\ threads = IdleThreads
  /\ pc = "parseWords"

runVars == <<newSpecConstants, options, context, orderIndex, phiIndex, compactIndex,
             optimizedWordCount>>

\* Shader::parse, first part: clear and parseWords.
DoParseWords ==
  /\ pc = "parseWords"
  /\ \E words \in {ParseWords(Clear(shader), data)} :
        /\ shader' = words.shader
        /\ parseResult' = IF words.result = "ok" THEN "none" ELSE words.result
        /\ pc' = IF words.result = "ok" THEN "process" ELSE "parseFailed"
  /\ UNCHANGED <<data, previous, threads, runVars>>

\* Shader::parse, second part: process.
DoProcess ==
  /\ pc = "process"
  /\ \E processed \in {Process(shader)} :
        /\ shader' = processed.shader
        /\ parseResult' = IF processed.ok THEN "none" ELSE "fail"
        /\ pc' = IF processed.ok THEN "sort" ELSE "parseFailed"
  /\ UNCHANGED <<data, previous, threads, runVars>>

\* Shader::parse, last part: sort.
DoSort ==
  /\ pc = "sort"
  /\ \E sorted \in SortOutcomes(shader) :
       /\ shader' = sorted.shader
       /\ parseResult' = sorted.result
       /\ pc' = IF sorted.result = "ok" THEN "parsed" ELSE "parseFailed"
  /\ UNCHANGED <<data, previous, threads, runVars>>

\* Optimizer::run is called on the parsed shader: optimizerPrepareData.
Prepare ==
  /\ pc = "parsed"
  /\ \E pNewSpecConstants \in OverrideLists, pOptions \in Options :
       /\ newSpecConstants' = pNewSpecConstants
       /\ options' = pOptions
  /\ context' = PrepareData(context, shader)
  /\ pc' = "patch"
  /\ UNCHANGED <<data, previous, threads, shader, parseResult, orderIndex, phiIndex, compactIndex,
                 optimizedWordCount>>

\* optimizerPatchSpecializationConstants
Patch ==
  /\ pc = "patch"
  /\ \E r \in {PatchSpecializationConstants(context, shader, newSpecConstants)} :
        /\ context' = r.context
        /\ pc' = IF r.ok THEN "evaluate" ELSE "failed"
  /\ orderIndex' = 0
  /\ UNCHANGED <<data, previous, threads, shader, parseResult, newSpecConstants, options, phiIndex,
                 compactIndex, optimizedWordCount>>

\* An evaluation pass that steps back to the last instruction of the order when it
\* reaches the end.
EvaluateSteppingBack ==
  /\ pc = "evaluate"
  /\ IF ~options.removeDeadCode \/ Len(shader.instructionOrder) = 0
       THEN /\ pc' = "decorations"
            /\ UNCHANGED <<context, orderIndex>>
     ELSE IF orderIndex >= Len(shader.instructionOrder)
       THEN /\ orderIndex' = orderIndex - 1
            /\ UNCHANGED <<context, pc>>
     ELSE \E r \in EvaluationOutcomes(context, shader,
                                         shader.instructionOrder[orderIndex + 1]) :
             /\ context' = r.context
             /\ orderIndex' = orderIndex + 1
             /\ pc' = IF r.fault THEN "fault" ELSE IF r.ok THEN "evaluate" ELSE "failed"
  /\ UNCHANGED <<data, previous, threads, shader, parseResult, newSpecConstants, options, phiIndex,
                 compactIndex, optimizedWordCount>>

\* optimizerRunEvaluationPass, one instruction of the order at a time; without
\* removeDeadCode the pass returns at once.
Evaluate ==
  /\ pc = "evaluate"
  /\ IF ~options.removeDeadCode \/ orderIndex >= Len(shader.instructionOrder)
       THEN /\ pc' = "decorations"
            /\ UNCHANGED <<context, orderIndex>>
     ELSE \E r \in EvaluationOutcomes(context, shader,
                                         shader.instructionOrder[orderIndex + 1]) :
             /\ context' = r.context
             /\ orderIndex' = orderIndex + 1
             /\ pc' = IF r.fault THEN "fault" ELSE IF r.ok THEN "evaluate" ELSE "failed"
  /\ UNCHANGED <<data, previous, threads, shader, parseResult, newSpecConstants, options, phiIndex,
                 compactIndex, optimizedWordCount>>

\* optimizerRemoveUnusedDecorations
RemoveDecorations ==
  /\ pc = "decorations"
  /\ context' = RemoveUnusedDecorations(context, shader, options)
  /\ phiIndex' = 0
  /\ pc' = "phis"
  /\ UNCHANGED <<data, previous, threads, shader, parseResult, newSpecConstants, options, orderIndex,
                 compactIndex, optimizedWordCount>>

\* optimizerCompactPhis, one phi at a time.
CompactPhis ==
  /\ pc = "phis"
  /\ IF phiIndex >= Len(shader.phis)
       THEN /\ pc' = "compact"
            /\ UNCHANGED <<context, phiIndex>>
     ELSE \E r \in {IF Deleted(context, InstructionWordIndex(shader,
                                                              shader.phis[phiIndex + 1]))
                        THEN [ok |-> TRUE, context |-> context]
                      ELSE CompactPhi(context, shader, shader.phis[phiIndex + 1])} :
             /\ context' = r.context
             /\ phiIndex' = phiIndex + 1
             /\ pc' = IF r.ok THEN "phis" ELSE "failed"
  /\ UNCHANGED <<data, previous, threads, shader, parseResult, newSpecConstants, options, orderIndex,
                 compactIndex, optimizedWordCount>>

\* optimizerCompactData without its header loop: the cursor starts at word 0.
CompactHeaderForgotten ==
  /\ pc = "compact"
  /\ optimizedWordCount' = 0
  /\ compactIndex' = 0
  /\ pc' = "compactData"
  /\ UNCHANGED <<data, previous, threads, shader, parseResult, newSpecConstants, options, context,
                 orderIndex, phiIndex>>

\* The header loop of optimizerCompactData run for i <= startingWordIndex: one word
\* more is copied and the cursor starts one word further.
CompactHeaderOneWordMore ==
  /\ pc = "compact"
  /\ context' = [context EXCEPT !.optimizedWords =
                   CopyWords(@, 0, 0, StartingWordIndex + 1)]
  /\ optimizedWordCount' = StartingWordIndex + 1
  /\ compactIndex' = 0
  /\ pc' = "compactData"
  /\ UNCHANGED <<data, previous, threads, shader, parseResult, newSpecConstants, options, orderIndex,
                 phiIndex>>

\* optimizerCompactData up to its instruction loop: the header is copied onto itself.
CompactHeader ==
  /\ pc = "compact"
  /\ context' = [context EXCEPT !.optimizedWords =
                   CopyWords(@, 0, 0, StartingWordIndex)]
  /\ optimizedWordCount' = StartingWordIndex
  /\ compactIndex' = 0
  /\ pc' = "compactData"
  /\ UNCHANGED <<data, previous, threads, shader, parseResult, newSpecConstants, options, orderIndex,
                 phiIndex>>

\* The instruction loop of optimizerCompactData, one instruction at a time, and the
\* resize that ends it: run returns true.
CompactData ==
  /\ pc = "compactData"
  /\ IF compactIndex >= Len(shader.instructions)
       THEN /\ context' = [context EXCEPT !.optimizedWords =
                             SubSeq(@, 1, optimizedWordCount)]
            /\ pc' = "done"
            /\ UNCHANGED <<compactIndex, optimizedWordCount>>
     ELSE \E r \in {CompactInstruction(context, shader, options, compactIndex,
                                         optimizedWordCount)} :
             /\ context' = [context EXCEPT !.optimizedWords = r.optimizedWords]
             /\ optimizedWordCount' = r.optimizedWordCount
             /\ compactIndex' = compactIndex + 1
             /\ pc' = "compactData"
  /\ UNCHANGED <<data, previous, threads, shader, parseResult, newSpecConstants, options, orderIndex,
                 phiIndex>>

Next ==
  \/ DoParseWords
  \/ DoProcess
  \/ DoSort
  \/ Prepare
  \/ Patch
  \/ Evaluate
  \/ RemoveDecorations
  \/ CompactPhis
  \/ CompactHeader
  \/ CompactData

Spec == Init /\ [][Next]_vars

\* ---------------------------------------------------------------- observations

\* Optimizer::run has returned true and the caller's buffer holds the output.
RunSucceeded == pc = "done"

RunFailed == pc = "failed"

OptimizedData == context.optimizedWords

\* ---------------------------------------------------------------- a whole call

\* optimizerRunEvaluationPass from position i of the instruction order on.
RECURSIVE RunEvaluationPass(_, _, _, _)
RunEvaluationPass(c, sh, pOptions, i) ==
  IF ~pOptions.removeDeadCode \/ i >= Len(sh.instructionOrder)
    THEN [ok |-> TRUE, context |-> c]
  ELSE LET Evaluated(r) ==
             IF ~r.ok THEN r ELSE RunEvaluationPass(r.context, sh, pOptions, i + 1)
       IN Evaluated(EvaluateInstruction(c, sh, sh.instructionOrder[i + 1]))

\* optimizerCompactPhis from position i of shader.phis on.
RECURSIVE OptimizerCompactPhis(_, _, _)
OptimizerCompactPhis(c, sh, i) ==
  IF i >= Len(sh.phis) THEN [ok |-> TRUE, context |-> c]
  ELSE LET PhiCompacted(r) ==
             IF ~r.ok THEN r ELSE OptimizerCompactPhis(r.context, sh, i + 1)
       IN PhiCompacted(IF Deleted(c, InstructionWordIndex(sh, sh.phis[i + 1]))
                      THEN [ok |-> TRUE, context |-> c]
                    ELSE CompactPhi(c, sh, sh.phis[i + 1]))

\* The instruction loop of optimizerCompactData from instruction i on, and its resize.
RECURSIVE OptimizerCompactData(_, _, _, _, _)
OptimizerCompactData(c, sh, pOptions, i, count) ==
  IF i >= Len(sh.instructions)
    THEN [c EXCEPT !.optimizedWords = Resize(c.optimizedWords, count, 0)]
  ELSE LET Copied(r) ==
             OptimizerCompactData([c EXCEPT !.optimizedWords = r.optimizedWords], sh,
                                  pOptions, i + 1, r.optimizedWordCount)
       IN Copied(CompactInstruction(c, sh, pOptions, i, count))

\* Optimizer::run as one function of the vectors it finds (c), the Shader, the
\* overrides and the options: what it returns and what it leaves in the vectors.
Run(c, sh, pNewSpecConstants, pOptions) ==
  LET Compact(phis) ==
        IF ~phis.ok THEN phis
        ELSE [ok |-> TRUE,
              context |->
                OptimizerCompactData(
                  [phis.context EXCEPT !.optimizedWords =
                     CopyWords(phis.context.optimizedWords, 0, 0,
                               StartingWordIndex)],
                  sh, pOptions, 0, StartingWordIndex)]
      Clean(evaluated) ==
        IF ~evaluated.ok THEN evaluated
        ELSE Compact(OptimizerCompactPhis(
                       RemoveUnusedDecorations(evaluated.context, sh, pOptions), sh, 0))
      Passes(patched) ==
        IF ~patched.ok THEN patched
        ELSE Clean(RunEvaluationPass(patched.context, sh, pOptions, 0))
  IN Passes(PatchSpecializationConstants(PrepareData(c, sh), sh, pNewSpecConstants))

\* ---------------------------------------------------------------- modules parse rejects

\* The word indices at which the instructions of a well-framed module start.
RECURSIVE InstructionStarts(_, _)
InstructionStarts(words, wordIndex) ==
  IF wordIndex >= Len(words) THEN {}
  ELSE {wordIndex} \cup
       InstructionStarts(words, wordIndex + WordCountOf(Word(words, wordIndex)))

\* The word index of the first instruction of the module with the opcode.
FirstOf(words, pOpCode) ==
  CHOOSE at \in InstructionStarts(words, StartingWordIndex) :
    /\ OpCodeOf(Word(words, at)) = pOpCode
    /\ \A other \in InstructionStarts(words, StartingWordIndex) :
         OpCodeOf(Word(words, other)) = pOpCode => at <= other

\* The module with the instruction put in front of word index at.
WithInstruction(words, at, instruction) ==
  SubSeq(words, 1, at) \o instruction \o SubSeq(words, at + 1, Len(words))

\* The selection with a phi and the switch, on a loaded value: the valid modules the
\* defects below are put into.
BaseModule == Preamble(FALSE, Id.s, "int", FALSE) \o CondBody("var", FALSE)

SwitchBaseModule == Preamble(FALSE, Id.s, "int", FALSE) \o SwitchBody("var")

\* An OpGroupNonUniformBallot at every position of the stream, the end included.
UnsupportedModules ==
  {WithInstruction(BaseModule, at,
                   Instr(SpvOpGroupNonUniformBallot, <<Id.uint, Id.free, 3, Id.ld>>)) :
     at \in InstructionStarts(BaseModule, StartingWordIndex) \cup {Len(BaseModule)}}

\* The words of BaseModule that name an id, as <<opcode of the instruction, word of
\* the instruction, role>>.
ReferenceSites ==
  {<<SpvOpLoad, 1, "type">>, <<SpvOpLoad, 2, "result">>, <<SpvOpLoad, 3, "operand">>,
   <<SpvOpIAdd, 1, "type">>, <<SpvOpIAdd, 4, "operand">>, <<SpvOpStore, 2, "operand">>,
   <<SpvOpBranch, 1, "label">>, <<SpvOpBranchConditional, 1, "operand">>,
   <<SpvOpBranchConditional, 3, "label">>, <<SpvOpSelectionMerge, 1, "label">>,
   <<SpvOpPhi, 3, "operand">>, <<SpvOpPhi, 4, "parent">>, <<SpvOpPhi, 6, "parent">>,
   <<SpvOpDecorate, 1, "specId">>}

\* Ids that name no producer: one below the bound that no instruction produces,
\* the bound itself and the largest word.
UnproducedIds == {Id.free, Id.bound, UINT32_MAX}

\* BaseModule with one reference replaced by an id that names no producer.
BadReferenceModules ==
  {SetWord(BaseModule, FirstOf(BaseModule, site[1]) + site[2], id) :
     site \in ReferenceSites, id \in UnproducedIds}

\* A second producer of Id.c0 at every position of the stream, and a label that
\* takes the id of the loaded value.
DuplicateResultModules ==
  {WithInstruction(BaseModule, at, Instr(SpvOpConstant, <<Id.uint, Id.c0, 2>>)) :
     at \in InstructionStarts(BaseModule, StartingWordIndex) \cup {Len(BaseModule)}}
  \cup {SetWord(BaseModule, FirstOf(BaseModule, SpvOpLoad) + 2, Id.c1)}

\* The header word of one instruction carries the word count 0.
ZeroWordCountModules ==
  {SetWord(BaseModule, at, OpCodeOf(Word(BaseModule, at))) :
     at \in InstructionStarts(BaseModule, StartingWordIndex)}

\* The last instruction, an OpFunctionEnd, claims more words than the buffer holds.
OverrunModules ==
  {SetWord(BaseModule, Len(BaseModule) - 1, HeaderWord(SpvOpFunctionEnd, wordCount)) :
     wordCount \in {2, 3, 32767}}

\* The switch module with its integer type 16 bits wide, and with a float type in
\* its place: no OpConstant of the module has a 32-bit integer type.
NarrowIntSwitchModule ==
  SetWord(SwitchBaseModule, FirstOf(SwitchBaseModule, SpvOpTypeInt) + 2, 16)

FloatSwitchModule ==
  SetWord(SwitchBaseModule, FirstOf(SwitchBaseModule, SpvOpTypeInt),
          HeaderWord(SpvOpTypeFloat, 4))

\* v = c0; loop { if (v != c1) { v = v + 1; continue } else break }; out = v: the
\* value carried round the loop is a phi of the loop header that names the sum
\* computed from it.
LoopCarriedModule ==
  Preamble(FALSE, Id.s, "int", FALSE) \o
  Flatten(<<
    Instr(SpvOpBranch, <<Id.H>>),
    Instr(SpvOpLabel, <<Id.H>>),
    Instr(SpvOpPhi, <<Id.uint, Id.v, Id.c0, Id.entry, Id.va, Id.C>>),
    Instr(SpvOpINotEqual, <<Id.bool, Id.g2, Id.v, Id.c1>>),
    Instr(SpvOpLoopMerge, <<Id.E, Id.C, 0>>),
    Instr(SpvOpBranchConditional, <<Id.g2, Id.C, Id.E>>),
    Instr(SpvOpLabel, <<Id.C>>),
    Instr(SpvOpIAdd, <<Id.uint, Id.va, Id.v, Id.c1>>),
    Instr(SpvOpBranch, <<Id.H>>),
    Instr(SpvOpLabel, <<Id.E>>),
    Instr(SpvOpStore, <<Id.out, Id.v>>),
    Epilogue
  >>)

ParseInputs ==
  Modules \cup UnsupportedModules \cup BadReferenceModules \cup DuplicateResultModules
  \cup ZeroWordCountModules \cup OverrunModules
  \cup {NarrowIntSwitchModule, FloatSwitchModule, LoopCarriedModule}

\* Shader::parse alone, on a fresh Shader, for the valid modules and the ones above.
ParseInit ==
  /\ data \in ParseInputs
  /\ shader = EmptyShader
  /\ parseResult = "none"
  /\ newSpecConstants = <<>>
  /\ options = DefaultOptions
  /\ context = EmptyContext
  /\ orderIndex = 0
  /\ phiIndex = 0
  /\ compactIndex = 0
  /\ optimizedWordCount = 0
  /\ previous = NoCall
  /\ threads = IdleThreads
  /\ pc = "parseWords"

ParseNext == DoParseWords \/ DoProcess \/ DoSort

ParseSpec == ParseInit /\ [][ParseNext]_vars

\* ---------------------------------------------------------------- repeated calls

\* The modules of the callers that run more than once: a selection, a switch with
\* debug instructions, a loop; their word counts differ.
RepeatModules ==
  {Preamble(FALSE, Id.s, "int", FALSE) \o Body("cond", "spec"),
   Preamble(TRUE, Id.s, "int", FALSE) \o Body("switch", "spec"),
   Preamble(FALSE, Id.s, "int", FALSE) \o Body("loop", "var")}

\* What a later call can tell about the call that has just returned.
Returned == [data |-> data, ok |-> pc = "done"]

\* The caller calls Optimizer::run again on the same Shader and the same thread: the
\* output vector and the thread_local vectors are as the last call left them.
RunAgain ==
  /\ pc \in {"done", "failed"}
  /\ previous' = Returned
  /\ pc' = "parsed"
  /\ UNCHANGED <<data, shader, parseResult, runVars, threads>>

\* The caller parses another module into a new Shader and will run on it, on the
\* same thread and with the same output vector.
RunOnOtherShader ==
  /\ pc \in {"done", "failed"}
  /\ previous' = Returned
  /\ data' \in RepeatModules \ {data}
  /\ shader' = EmptyShader
  /\ parseResult' = "none"
  /\ pc' = "parseWords"
  /\ UNCHANGED <<runVars, threads>>

RepeatInit ==
  /\ data \in RepeatModules
  /\ shader = EmptyShader
  /\ parseResult = "none"
  /\ newSpecConstants = <<>>
  /\ options = DefaultOptions
  /\ context = EmptyContext
  /\ orderIndex = 0
  /\ phiIndex = 0
  /\ compactIndex = 0
  /\ optimizedWordCount = 0
  /\ previous = NoCall
  /\ threads = IdleThreads
  /\ pc = "parseWords"

RepeatNext ==
  \/ DoParseWords
  \/ DoProcess
  \/ DoSort
  \/ Prepare
  \/ Patch
  \/ Evaluate
  \/ RemoveDecorations
  \/ CompactPhis
  \/ CompactHeader
  \/ CompactData
  \/ RunAgain
  \/ RunOnOtherShader

RepeatSpec == RepeatInit /\ [][RepeatNext]_vars

\* ---------------------------------------------------------------- concurrent calls

\* The thread_local vectors of Optimizer::run declared static: one instance, the
\* first thread's, for every thread.
ThreadLocalShared(t) == 1

\* The thread whose instance of the thread_local vectors thread t uses: its own.
ThreadLocal(t) == t

\* The OptimizerContext of the call of thread t: references to the caller's vector
\* and to the thread_local vectors.
ContextOf(t) ==
  [optimizedWords |-> threads[t].optimizedWords,
   instructionInDegrees |-> threads[ThreadLocal(t)].instructionInDegrees,
   instructionOutDegrees |-> threads[ThreadLocal(t)].instructionOutDegrees,
   resolutions |-> threads[ThreadLocal(t)].resolutions]

\* The threads after a pass of thread t has left c in the vectors of its context.
AfterPass(called, t, c, next) ==
  LET returned == [called EXCEPT ![t].pc = next, ![t].optimizedWords = c.optimizedWords]
  IN [returned EXCEPT ![ThreadLocal(t)].instructionInDegrees = c.instructionInDegrees,
                      ![ThreadLocal(t)].instructionOutDegrees = c.instructionOutDegrees,
                      ![ThreadLocal(t)].resolutions = c.resolutions]

\* The calls the threads make: no override, one that folds the guard either way, one
\* that fails.
ThreadOverrideLists ==
  {<<>>, <<SpecConstant(SpecIds.present, <<0>>)>>, <<SpecConstant(SpecIds.present, <<1>>)>>,
   <<SpecConstant(SpecIds.present, <<0, 0>>)>>}

mainVars ==
  <<data, shader, parseResult, newSpecConstants, options, context, orderIndex, phiIndex,
    compactIndex, optimizedWordCount, previous, pc>>

\* Thread t calls Optimizer::run on the parsed shader: optimizerPrepareData.
ThreadPrepare(t) ==
  /\ pc = "parsed"
  /\ threads[t].pc = "idle"
  /\ \E pNewSpecConstants \in ThreadOverrideLists, pOptions \in Options :
       threads' = AfterPass([threads EXCEPT ![t].newSpecConstants = pNewSpecConstants,
                                            ![t].options = pOptions],
                            t, PrepareData(ContextOf(t), shader), "patch")
  /\ UNCHANGED mainVars

\* optimizerPatchSpecializationConstants of thread t.
ThreadPatch(t) ==
  /\ threads[t].pc = "patch"
  /\ \E r \in {PatchSpecializationConstants(ContextOf(t), shader,
                                            threads[t].newSpecConstants)} :
       threads' = AfterPass(threads, t, r.context, IF r.ok THEN "evaluate" ELSE "failed")
  /\ UNCHANGED mainVars

\* optimizerRunEvaluationPass of thread t.
ThreadEvaluate(t) ==
  /\ threads[t].pc = "evaluate"
  /\ \E r \in {RunEvaluationPass(ContextOf(t), shader, threads[t].options, 0)} :
       threads' = AfterPass(threads, t, r.context,
                            IF r.ok THEN "decorations" ELSE "failed")
  /\ UNCHANGED mainVars

\* optimizerRemoveUnusedDecorations of thread t.
ThreadRemoveDecorations(t) ==
  /\ threads[t].pc = "decorations"
  /\ threads' = AfterPass(threads, t,
                          RemoveUnusedDecorations(ContextOf(t), shader, threads[t].options),
                          "phis")
  /\ UNCHANGED mainVars

\* optimizerCompactPhis of thread t.
ThreadCompactPhis(t) ==
  /\ threads[t].pc = "phis"
  /\ \E r \in {OptimizerCompactPhis(ContextOf(t), shader, 0)} :
       threads' = AfterPass(threads, t, r.context, IF r.ok THEN "compact" ELSE "failed")
  /\ UNCHANGED mainVars

\* optimizerCompactData of thread t: its call of run returns true.
ThreadCompactData(t) ==
  /\ threads[t].pc = "compact"
  /\ \E c \in {ContextOf(t)} :
       threads' = AfterPass(threads, t,
                            OptimizerCompactData(
                              [c EXCEPT !.optimizedWords =
                                 CopyWords(c.optimizedWords, 0, 0, StartingWordIndex)],
                              shader, threads[t].options, 0, StartingWordIndex),
                            "done")
  /\ UNCHANGED mainVars

ConcurrentInit ==
  /\ data \in RepeatModules
  /\ shader = EmptyShader
  /\ parseResult = "none"
  /\ newSpecConstants = <<>>
  /\ options = DefaultOptions
  /\ context = EmptyContext
  /\ orderIndex = 0
  /\ phiIndex = 0
  /\ compactIndex = 0
  /\ optimizedWordCount = 0
  /\ previous = NoCall
  /\ threads = IdleThreads
  /\ pc = "parseWords"

\* One thread parses; then the threads call Optimizer::run on the parsed shader and
\* the scheduler interleaves the passes of their calls in any order.
ConcurrentNext ==
  \/ DoParseWords
  \/ DoProcess
  \/ DoSort
  \/ \E t \in Threads :
       \/ ThreadPrepare(t)
       \/ ThreadPatch(t)
       \/ ThreadEvaluate(t)
       \/ ThreadRemoveDecorations(t)
       \/ ThreadCompactPhis(t)
       \/ ThreadCompactData(t)

ConcurrentSpec == ConcurrentInit /\ [][ConcurrentNext]_vars

\* ---------------------------------------------------------------- parse called again

\* The modules given to a Shader object that is parsed more than once.
ReparseInputs ==
  RepeatModules \cup {BaseModule, SwitchBaseModule, NarrowIntSwitchModule, FloatSwitchModule}

\* Shader::parse has returned and the caller hands another module to the same object.
Reparse ==
  /\ pc \in {"parsed", "parseFailed"}
  /\ previous' = [data |-> data, ok |-> parseResult = "ok"]
  /\ data' \in ReparseInputs
  /\ parseResult' = "none"
  /\ pc' = "parseWords"
  /\ UNCHANGED <<shader, runVars, threads>>

ReparseInit ==
  /\ data \in ReparseInputs
  /\ shader = EmptyShader
  /\ parseResult = "none"
  /\ newSpecConstants = <<>>
  /\ options = DefaultOptions
  /\ context = EmptyContext
  /\ orderIndex = 0
  /\ phiIndex = 0
  /\ compactIndex = 0
  /\ optimizedWordCount = 0
  /\ previous = NoCall
  /\ threads = IdleThreads
  /\ pc = "parseWords"

ReparseNext == DoParseWords \/ DoProcess \/ DoSort \/ Reparse

ReparseSpec == ReparseInit /\ [][ReparseNext]_vars

\* ---------------------------------------------------------------- divisions

\* g = (first / second != 0); if (g) { out = c1; return } else { discard }.  Id.D is
\* the constant -7.
DivideBody(pOpCode, first, second) ==
  Flatten(<<
    Instr(SpvOpConstant, <<Id.uint, Id.D, -7>>),
    Instr(pOpCode, <<Id.uint, Id.v, first, second>>),
    Instr(SpvOpINotEqual, <<Id.bool, Id.g, Id.v, Id.c0>>),
    ReturnBody("const")
  >>)

\* The division of a constant by the specialization constant, of the specialization
\* constant by the constant 0, and of a loaded value by the constant 0.
DivideModules ==
  {Preamble(FALSE, Id.s, "int", FALSE) \o DivideBody(pOpCode, operands[1], operands[2]) :
     pOpCode \in {SpvOpUDiv, SpvOpSDiv},
     operands \in {<<Id.c1, Id.s>>, <<Id.D, Id.s>>, <<Id.s, Id.c0>>, <<Id.ld, Id.c0>>}}

DivideInit ==
  /\ data \in DivideModules
  /\ shader = EmptyShader
  /\ parseResult = "none"
  /\ newSpecConstants = <<>>
  /\ options = DefaultOptions
  /\ context = EmptyContext
  /\ orderIndex = 0
  /\ phiIndex = 0
  /\ compactIndex = 0
  /\ optimizedWordCount = 0
  /\ previous = NoCall
  /\ threads = IdleThreads
  /\ pc = "parseWords"

DivideSpec == DivideInit /\ [][Next]_vars

\* ---------------------------------------------------------------- decorated values

\* va = 1 + 1; g2 = 1 - 1; if (x + 1 == 0) { free = ld + 1 }; r = phi(value from B,
\* c0 from entry); out = r, the block B being reached through block A only.  The
\* value named by the phi pair of B is used nowhere else, and the phi comes before
\* the conditional branch in the instruction order (its level is lower).  more is
\* the pairs the phi names after these two.
DecoratedPhiBody(x, value, more) ==
  Flatten(<<
    Instr(SpvOpIAdd, <<Id.uint, Id.v, x, Id.c1>>),
    Instr(SpvOpINotEqual, <<Id.bool, Id.g, Id.v, Id.c0>>),
    Instr(SpvOpIAdd, <<Id.uint, Id.va, Id.c1, Id.c1>>),
    Instr(SpvOpISub, <<Id.uint, Id.g2, Id.c1, Id.c1>>),
    Instr(SpvOpSelectionMerge, <<Id.M, 0>>),
    Instr(SpvOpBranchConditional, <<Id.g, Id.M, Id.A>>),
    Instr(SpvOpLabel, <<Id.A>>),
    Instr(SpvOpIAdd, <<Id.uint, Id.free, Id.ld, Id.c1>>),
    Instr(SpvOpBranch, <<Id.B>>),
    Instr(SpvOpLabel, <<Id.B>>),
    Instr(SpvOpBranch, <<Id.M>>),
    Instr(SpvOpLabel, <<Id.M>>),
    Instr(SpvOpPhi, <<Id.uint, Id.r, value, Id.B, Id.c0, Id.entry>> \o more),
    Instr(SpvOpStore, <<Id.out, Id.r>>),
    Epilogue
  >>)

\* The module with a decoration (RelaxedPrecision) of the value computed in block A
\* and one of the constant sum Id.va.
DecoratedModule(x, value) ==
  LET words == Preamble(FALSE, Id.s, "int", FALSE) \o DecoratedPhiBody(x, value, <<>>)
  IN WithInstruction(words, FirstOf(words, SpvOpTypeVoid),
                     Instr(SpvOpDecorate, <<Id.free, 0>>) \o Instr(SpvOpDecorate, <<Id.va, 0>>))

DecoratedModules ==
  {DecoratedModule(x, value) : x \in {Id.s, Id.ld}, value \in {Id.va, Id.g2}}

DecorationInit ==
  /\ data \in DecoratedModules
  /\ shader = EmptyShader
  /\ parseResult = "none"
  /\ newSpecConstants = <<>>
  /\ options = DefaultOptions
  /\ context = EmptyContext
  /\ orderIndex = 0
  /\ phiIndex = 0
  /\ compactIndex = 0
  /\ optimizedWordCount = 0
  /\ previous = NoCall
  /\ threads = IdleThreads
  /\ pc = "parseWords"

DecorationSpec == DecorationInit /\ [][Next]_vars

\* ---------------------------------------------------------------- the merge slot

\* An id whose low 16 bits are the opcode of OpSelectionMerge, and the bound of a
\* module that uses it.
MergeLikeId == SpvOpSelectionMerge

MergeLikeBound == MergeLikeId + 1

\* loop { if (g) continue else break }: the conditional branch of the loop header
\* comes after an OpLoopMerge, whose merge target is exit.
LoopHeaderBody(exit) ==
  Flatten(<<
    Guard("spec"),
    Instr(SpvOpBranch, <<Id.H>>),
    Instr(SpvOpLabel, <<Id.H>>),
    Instr(SpvOpLoopMerge, <<exit, Id.C, 0>>),
    Instr(SpvOpBranchConditional, <<Id.g, Id.C, exit>>),
    Instr(SpvOpLabel, <<Id.C>>),
    Instr(SpvOpBranch, <<Id.H>>),
    Instr(SpvOpLabel, <<exit>>),
    Epilogue
  >>)

\* The module with the id bound raised to MergeLikeBound.
WithMergeLikeBound(words) == SetWord(words, 3, MergeLikeBound)

\* The selection with an OpSelectionMerge before its conditional branch, the
\* conditional branch that follows the comparison computing its guard, the same with
\* the guard given the id MergeLikeId, and the loop header with the exit label given
\* an ordinary id and MergeLikeId.
MergeSlotModules ==
  LET plain == Preamble(FALSE, Id.s, "int", FALSE) \o ReturnBody("spec")
  IN {Preamble(FALSE, Id.s, "int", FALSE) \o CondBody("spec", FALSE),
      plain,
      WithMergeLikeBound(
        SetWord(SetWord(plain, FirstOf(plain, SpvOpINotEqual) + 2, MergeLikeId),
                FirstOf(plain, SpvOpBranchConditional) + 1, MergeLikeId)),
      Preamble(FALSE, Id.s, "int", FALSE) \o LoopHeaderBody(Id.E),
      WithMergeLikeBound(Preamble(FALSE, Id.s, "int", FALSE) \o LoopHeaderBody(MergeLikeId))}

MergeSlotInit ==
  /\ data \in MergeSlotModules
  /\ shader = EmptyShader
  /\ parseResult = "none"
  /\ newSpecConstants = <<>>
  /\ options = DefaultOptions
  /\ context = EmptyContext
  /\ orderIndex = 0
  /\ phiIndex = 0
  /\ compactIndex = 0
  /\ optimizedWordCount = 0
  /\ previous = NoCall
  /\ threads = IdleThreads
  /\ pc = "parseWords"

MergeSlotSpec == MergeSlotInit /\ [][Next]_vars

\* ---------------------------------------------------------------- termination

\* The modules of Spec, among them the loop inside a selection with every guard, and
\* the loop header that branches on the guard.
TerminationModules ==
  Modules \cup {Preamble(FALSE, Id.s, "int", FALSE) \o LoopHeaderBody(Id.E)}

TerminationInit ==
  /\ data \in TerminationModules
  /\ shader = EmptyShader
  /\ parseResult = "none"
  /\ newSpecConstants = <<>>
  /\ options = DefaultOptions
  /\ context = EmptyContext
  /\ orderIndex = 0
  /\ phiIndex = 0
  /\ compactIndex = 0
  /\ optimizedWordCount = 0
  /\ previous = NoCall
  /\ threads = IdleThreads
  /\ pc = "parseWords"

\* Where the call is: the part of parse or the pass of run it is in and the loop
\* indices of the passes.
position == <<pc, orderIndex, phiIndex, compactIndex>>

CallReturned == pc \in {"parseFailed", "done", "failed", "fault"}

\* The call has not returned and is somewhere else after the step.
Advance ==
  /\ ~CallReturned
  /\ pc' \in {"parseWords", "process", "sort", "parsed", "parseFailed", "patch", "evaluate",
              "decorations", "phis", "compact", "compactData", "done", "failed", "fault"}
  /\ orderIndex' \in 0..Len(data)
  /\ phiIndex' \in 0..Len(data)
  /\ compactIndex' \in 0..Len(data)

\* parse and run are sequential code on one thread: a call that has not returned
\* goes on executing.
TerminationSpec == TerminationInit /\ [][Next]_vars /\ WF_position(Advance)

\* ---------------------------------------------------------------- degrees

\* switch (s + 1) with the case list cases; every case block stores and branches to
\* the merge block.
CasesBody(cases) ==
  Flatten(<<
    Instr(SpvOpIAdd, <<Id.uint, Id.v, Id.s, Id.c1>>),
    Instr(SpvOpSelectionMerge, <<Id.M, 0>>),
    Instr(SpvOpSwitch, <<Id.v, Id.D>> \o cases),
    Instr(SpvOpLabel, <<Id.L1>>),
    Instr(SpvOpStore, <<Id.out, Id.c0>>),
    Instr(SpvOpBranch, <<Id.M>>),
    Instr(SpvOpLabel, <<Id.L2>>),
    Instr(SpvOpStore, <<Id.out, Id.v>>),
    Instr(SpvOpBranch, <<Id.M>>),
    Instr(SpvOpLabel, <<Id.D>>),
    Instr(SpvOpBranch, <<Id.M>>),
    Instr(SpvOpLabel, <<Id.M>>),
    Epilogue
  >>)

\* if (g) { out = 0 }; if (g) { out = 1 }: one guard, two conditional branches.
SharedGuardBody ==
  Flatten(<<
    Guard("spec"),
    Instr(SpvOpSelectionMerge, <<Id.M, 0>>),
    Instr(SpvOpBranchConditional, <<Id.g, Id.A, Id.M>>),
    Instr(SpvOpLabel, <<Id.A>>),
    Instr(SpvOpStore, <<Id.out, Id.c0>>),
    Instr(SpvOpBranch, <<Id.M>>),
    Instr(SpvOpLabel, <<Id.M>>),
    Instr(SpvOpSelectionMerge, <<Id.E, 0>>),
    Instr(SpvOpBranchConditional, <<Id.g, Id.C, Id.E>>),
    Instr(SpvOpLabel, <<Id.C>>),
    Instr(SpvOpStore, <<Id.out, Id.c1>>),
    Instr(SpvOpBranch, <<Id.E>>),
    Instr(SpvOpLabel, <<Id.E>>),
    Epilogue
  >>)

\* The selection of DecoratedPhiBody whose phi names a third parent, block A, that
\* does not branch to the block of the phi: the evaluation pass drops that pair and
\* the final pass the pair of block B.
TwicePhiBody == DecoratedPhiBody(Id.s, Id.g2, <<Id.va, Id.A>>)

\* The switch with a case literal named twice, with a label named by two cases and with
\* the default label named by a case; the guard of two branches; the phi compacted
\* twice.
DegreeModules ==
  {Preamble(FALSE, Id.s, "int", FALSE) \o CasesBody(cases) :
     cases \in {<<1, Id.L1, 1, Id.L2>>, <<1, Id.L1, 2, Id.L1>>, <<2, Id.L1, 2, Id.D, 3, Id.L2>>}}
  \cup {Preamble(FALSE, Id.s, "int", FALSE) \o SharedGuardBody,
        Preamble(FALSE, Id.s, "int", FALSE) \o TwicePhiBody}

DegreeInit ==
  /\ data \in DegreeModules
  /\ shader = EmptyShader
  /\ parseResult = "none"
  /\ newSpecConstants = <<>>
  /\ options = DefaultOptions
  /\ context = EmptyContext
  /\ orderIndex = 0
  /\ phiIndex = 0
  /\ compactIndex = 0
  /\ optimizedWordCount = 0
  /\ previous = NoCall
  /\ threads = IdleThreads
  /\ pc = "parseWords"

DegreeSpec == DegreeInit /\ [][Next]_vars

\* ---------------------------------------------------------------- reading a module

\* The word indices of the instructions of a word stream, from wordIndex on.
RECURSIVE InstructionIndices(_, _)
InstructionIndices(ws, wordIndex) ==
  IF wordIndex >= Len(ws) THEN <<>>
  ELSE IF WordCountOf(Word(ws, wordIndex)) = 0 THEN <<wordIndex>>
  ELSE <<wordIndex>> \o
       InstructionIndices(ws, wordIndex + WordCountOf(Word(ws, wordIndex)))

InstructionsOf(ws) == InstructionIndices(ws, StartingWordIndex)

InstructionWords(ws, wordIndex) ==
  SubSeq(ws, wordIndex + 1, wordIndex + WordCountOf(Word(ws, wordIndex)))

HeaderOf(ws) == SubSeq(ws, 1, StartingWordIndex)

\* The debug instructions the specification lets a run drop.
DebugOpCodes == {SpvOpSource, SpvOpName, SpvOpMemberName}

\* ws without its instructions whose opcode is in dropped.
WithoutOpCodes(ws, dropped) ==
  LET ins == InstructionsOf(ws)
  IN HeaderOf(ws) \o
     Flatten([k \in 1..Len(ins) |->
                IF OpCodeOf(Word(ws, ins[k])) \in dropped THEN <<>>
                ELSE InstructionWords(ws, ins[k])])

HasOpCode(ws, pOpCode) ==
  LET ins == InstructionsOf(ws)
  IN \E k \in 1..Len(ins) : OpCodeOf(Word(ws, ins[k])) = pOpCode

\* The (value, parent) pairs of the OpPhi at wordIndex, in order.
PhiPairs(ws, wordIndex) ==
  LET n == (WordCountOf(Word(ws, wordIndex)) - 3) \div 2
  IN [k \in 1..n |-> <<Word(ws, wordIndex + 2 * k + 1), Word(ws, wordIndex + 2 * k + 2)>>]

\* The guard of the OpBranchConditional or OpSwitch at wordIndex resolved to a constant.
GuardIsConstant(ws, wordIndex) ==
  /\ OpCodeOf(Word(ws, wordIndex)) \in {SpvOpBranchConditional, SpvOpSwitch}
  /\ context.resolutions[Word(ws, wordIndex + 1) + 1].type = "Constant"

\* Some OpBranchConditional or OpSwitch of the parsed module has a guard that
\* resolves to a constant.
SomeGuardIsConstant ==
  LET ins == InstructionsOf(data)
  IN \E k \in 1..Len(ins) : GuardIsConstant(data, ins[k])

\* Every pair of every OpPhi of the parsed module names a parent block whose
\* terminator names the block of the phi, which a valid module guarantees.
PhisWellFormed ==
  LET c == PrepareData(EmptyContext, shader)
  IN \A k \in 1..Len(shader.phis) :
       LET wordIndex == InstructionWordIndex(shader, shader.phis[k])
           wordCount == WordCountOf(Word(data, wordIndex))
       IN \A i \in 3..(wordCount - 1) :
            (i % 2 = 1) =>
              KeepPhiPair(c, shader, wordIndex, i,
                          EnclosingLabelId(c, shader, shader.phis[k]))

NoOverrides == newSpecConstants = <<>>

\* ---------------------------------------------------------------- C1

\* C1 (as the specification states it): for every module that parses, a run with no
\* overrides and removeDeadCode outputs the input with only OpSource, OpName and
\* OpMemberName removed, whatever the guards of its branches are.
C1_NoOverridesOnlyDropsDebug ==
  (RunSucceeded /\ NoOverrides /\ options.removeDeadCode)
    => OptimizedData = WithoutOpCodes(data, DebugOpCodes)

\* C1 (amended): a run with no overrides and removeDeadCode outputs the input with
\* only OpSource, OpName and OpMemberName removed, provided that no OpBranchConditional
\* or OpSwitch has a guard that resolves to a constant and that every phi pair names a
\* parent block that branches to the phi's block.
C1_NoOverridesOnlyDropsDebugUnlessFolded ==
  (RunSucceeded /\ NoOverrides /\ options.removeDeadCode
     /\ ~SomeGuardIsConstant /\ PhisWellFormed)
    => OptimizedData = WithoutOpCodes(data, DebugOpCodes)

\* A run of C1's kind on a module with debug instructions, a conditional branch and a
\* phi has finished.
C1_Witness ==
  /\ RunSucceeded /\ NoOverrides /\ options.removeDeadCode
  /\ ~SomeGuardIsConstant /\ PhisWellFormed
  /\ HasOpCode(data, SpvOpMemberName) /\ HasOpCode(data, SpvOpBranchConditional)
  /\ HasOpCode(data, SpvOpPhi)
  /\ Len(OptimizedData) < Len(data)

\* ---------------------------------------------------------------- C2

\* C2: for every valid module that parses, a run with no overrides and removeDeadCode
\* = false outputs exactly the input, phis and debug instructions included.
C2_NoOverridesNoDeadCodeIsIdentity ==
  (RunSucceeded /\ NoOverrides /\ ~options.removeDeadCode /\ PhisWellFormed)
    => OptimizedData = data

\* Such a run on a module with a phi and debug instructions has finished.
C2_Witness ==
  /\ RunSucceeded /\ NoOverrides /\ ~options.removeDeadCode /\ PhisWellFormed
  /\ HasOpCode(data, SpvOpPhi) /\ HasOpCode(data, SpvOpName)
  /\ phiIndex = Len(shader.phis)

\* ---------------------------------------------------------------- C3

HasLabel(ws, labelId) ==
  LET ins == InstructionsOf(ws)
  IN \E k \in 1..Len(ins) :
       /\ OpCodeOf(Word(ws, ins[k])) = SpvOpLabel
       /\ Word(ws, ins[k] + 1) = labelId

HasInstruction(ws, words) ==
  LET ins == InstructionsOf(ws)
  IN \E k \in 1..Len(ins) : InstructionWords(ws, ins[k]) = words

\* C3: the module whose OpBranchConditional is guarded by an OpSpecConstantTrue with a
\* SpecId decoration parses, and the run that overrides that SpecId with 0 outputs
\* OpBranch %B, no instruction of block %A and no SpecId decoration.
C3_SpecConstantTrueFolds ==
  data = SpecTrueModule =>
    /\ parseResult /= "fail"
    /\ (RunSucceeded /\ newSpecConstants = <<SpecConstant(SpecIds.present, <<0>>)>>) =>
         /\ HasInstruction(OptimizedData, Instr(SpvOpBranch, <<Id.B>>))
         /\ ~HasOpCode(OptimizedData, SpvOpBranchConditional)
         /\ ~HasLabel(OptimizedData, Id.A)
         /\ ~HasInstruction(OptimizedData, Instr(SpvOpStore, <<Id.out, Id.c1>>))
         /\ ~HasInstruction(OptimizedData,
               Instr(SpvOpDecorate, <<Id.s, SpvDecorationSpecId, SpecIds.present>>))

\* ---------------------------------------------------------------- C4

\* The evaluation pass is about to visit an instruction.
Evaluating ==
  pc = "evaluate" /\ options.removeDeadCode /\ orderIndex < Len(shader.instructionOrder)

EvaluatedWordIndex ==
  InstructionWordIndex(shader, shader.instructionOrder[orderIndex + 1])

\* It is about to visit a live OpSwitch whose selector resolved to a constant.
FoldingSwitch ==
  /\ Evaluating
  /\ ~Deleted(context, EvaluatedWordIndex)
  /\ OpCodeOf(Word(context.optimizedWords, EvaluatedWordIndex)) = SpvOpSwitch
  /\ GuardIsConstant(context.optimizedWords, EvaluatedWordIndex)

\* The (literal, label) cases of the OpSwitch at wordIndex.
SwitchCases(ws, wordIndex) == PhiPairs(ws, wordIndex)

\* The label the switch at wordIndex takes for the selector value v.
ChosenLabel(ws, wordIndex, v) ==
  LET cases == SwitchCases(ws, wordIndex)
      matching == {k \in 1..Len(cases) : cases[k][1] = v}
  IN IF matching = {} THEN Word(ws, wordIndex + 2)
     ELSE cases[CHOOSE k \in matching : \A m \in matching : m <= k][2]

\* How many times the switch at wordIndex names labelId other than as the label taken.
OtherReferences(ws, wordIndex, v, labelId) ==
  LET cases == SwitchCases(ws, wordIndex)
      matching == {k \in 1..Len(cases) : cases[k][1] = v}
  IN Cardinality({k \in 1..Len(cases) : cases[k][1] /= v /\ cases[k][2] = labelId})
     + (IF matching /= {} /\ Word(ws, wordIndex + 2) = labelId THEN 1 ELSE 0)

\* The instructions of the parsed module from the label at instruction index
\* labelInstructionIndex to the first terminator.
RECURSIVE BlockInstructions(_)
BlockInstructions(i) ==
  IF i >= Len(shader.instructions) THEN {}
  ELSE IF SpvOpIsTerminator(OpCodeOf(Word(data, InstructionWordIndex(shader, i)))) THEN {i}
  ELSE {i} \cup BlockInstructions(i + 1)

BlockDeleted(c, labelInstructionIndex) ==
  \A i \in BlockInstructions(labelInstructionIndex) :
    Deleted(c, InstructionWordIndex(shader, i))

\* The instruction indices of the labels some instruction of the module names.
BranchedLabels ==
  {i \in 0..(Len(shader.instructions) - 1) :
     /\ OpCodeOf(Word(data, InstructionWordIndex(shader, i))) = SpvOpLabel
     /\ shader.instructionInDegrees[i + 1] > 0}

LabelIdOf(i) == Word(data, InstructionWordIndex(shader, i) + 1)

\* What the visit of a constant OpSwitch does to the buffer and to the in degrees.  In
\* these modules no block that is deleted branches to a case label, so the references
\* of the switch are all a case label loses.
SwitchFolded ==
  LET wordIndex == EvaluatedWordIndex
      ws == context.optimizedWords
      wordCount == WordCountOf(Word(ws, wordIndex))
      v == context.resolutions[Word(ws, wordIndex + 1) + 1].value
  IN /\ InstructionWords(context'.optimizedWords, wordIndex) =
          <<HeaderWord(SpvOpSwitch, 3), shader.defaultSwitchOpConstantInt,
            ChosenLabel(ws, wordIndex, v)>>
     /\ \A k \in 3..(wordCount - 1) :
          Word(context'.optimizedWords, wordIndex + k) = UINT32_MAX
     /\ \A i \in BranchedLabels :
          /\ OtherReferences(ws, wordIndex, v, LabelIdOf(i)) > 0 =>
               context'.instructionInDegrees[i + 1] =
                 context.instructionInDegrees[i + 1]
                   - OtherReferences(ws, wordIndex, v, LabelIdOf(i))
          /\ (context.instructionInDegrees[i + 1] > 0
                /\ context'.instructionInDegrees[i + 1] = 0) => BlockDeleted(context', i)

\* Every block whose in degree has reached zero is out of the buffer once the passes
\* are over, and out of the output.
ZeroDegreeBlocksAbsent ==
  /\ pc \in {"compact", "compactData", "done"} =>
       \A i \in BranchedLabels :
         context.instructionInDegrees[i + 1] = 0 =>
           IF pc = "compact" THEN BlockDeleted(context, i)
           ELSE pc = "done" => ~HasLabel(OptimizedData, LabelIdOf(i))

\* C4: an OpSwitch whose selector resolves to a constant v is rewritten in place to the
\* three words OpSwitch <default switch constant> <L>, L the label of the case of v or
\* the default label; every other label the switch names loses one in degree per
\* reference; a block whose in degree reaches zero is deleted and is not in the output.
C4_ConstantSwitchFolds ==
  /\ [][FoldingSwitch => SwitchFolded]_vars
  /\ [](ZeroDegreeBlocksAbsent)

\* A switch has been folded to the case of the literal 2: the output holds the three
\* word switch to that label and neither the other case nor the default block.
C4_Witness ==
  /\ RunSucceeded
  /\ HasInstruction(OptimizedData,
                    <<HeaderWord(SpvOpSwitch, 3), shader.defaultSwitchOpConstantInt, Id.L2>>)
  /\ HasLabel(data, Id.L1) /\ ~HasLabel(OptimizedData, Id.L1)
  /\ HasLabel(data, Id.D) /\ ~HasLabel(OptimizedData, Id.D)

\* ---------------------------------------------------------------- C5

\* The label of the block that holds the instruction at wordIndex of ws.
EnclosingLabelIn(ws, wordIndex) ==
  LET ins == InstructionsOf(ws)
      labels == {k \in 1..Len(ins) :
                   ins[k] < wordIndex /\ OpCodeOf(Word(ws, ins[k])) = SpvOpLabel}
  IN Word(ws, ins[CHOOSE k \in labels : \A m \in labels : m <= k] + 1)

\* ws holds the block of label parentId and the terminator of that block names labelId.
BlockBranchesTo(ws, parentId, labelId) ==
  LET ins == InstructionsOf(ws)
      from == {k \in 1..Len(ins) :
                 OpCodeOf(Word(ws, ins[k])) = SpvOpLabel /\ Word(ws, ins[k] + 1) = parentId}
      terminators == {k \in 1..Len(ins) :
                        /\ \E f \in from : f <= k
                        /\ SpvOpIsTerminator(OpCodeOf(Word(ws, ins[k])))}
  IN /\ terminators /= {}
     /\ LET t == ins[CHOOSE k \in terminators : \A m \in terminators : k <= m]
            labels == LabelIds(ws, t, WordCountOf(Word(ws, t)), OpCodeOf(Word(ws, t)))
        IN \E k \in 1..Len(labels) : labels[k] = labelId

\* The OpPhi at wordIndex of the output has the pairs of the phi of the input with the
\* same result whose parent is in the output and branches to the phi's block.
OutputPhiCompacted(wordIndex) ==
  LET out == OptimizedData
      original == PhiPairs(data, ResultWordIndex(shader, Word(out, wordIndex + 2)))
      kept == SelectSeq(original,
                LAMBDA pair : BlockBranchesTo(out, pair[2], EnclosingLabelIn(out, wordIndex)))
  IN /\ PhiPairs(out, wordIndex) = kept
     /\ WordCountOf(Word(out, wordIndex)) = 3 + 2 * Len(kept)

OutputPhisCompacted ==
  LET ins == InstructionsOf(OptimizedData)
  IN \A k \in 1..Len(ins) :
       OpCodeOf(Word(OptimizedData, ins[k])) = SpvOpPhi => OutputPhiCompacted(ins[k])

\* The instruction a phi compaction is about to work on: the one the evaluation pass
\* visits, or the one the final pass over the phis visits.
CompactedWordIndex ==
  IF pc = "phis" THEN InstructionWordIndex(shader, shader.phis[phiIndex + 1])
  ELSE EvaluatedWordIndex

CompactingPhi ==
  /\ \/ pc = "phis" /\ phiIndex < Len(shader.phis)
     \/ Evaluating
  /\ ~Deleted(context, CompactedWordIndex)
  /\ OpCodeOf(Word(context.optimizedWords, CompactedWordIndex)) = SpvOpPhi

\* The values of the pairs the step drops, and how many dropped pairs hold value.
DroppedPairs ==
  LET before == PhiPairs(context.optimizedWords, CompactedWordIndex)
      after == PhiPairs(context'.optimizedWords, CompactedWordIndex)
  IN {k \in 1..Len(before) : \A m \in 1..Len(after) : after[m] /= before[k]}

DroppedCount(value) ==
  LET before == PhiPairs(context.optimizedWords, CompactedWordIndex)
  IN Cardinality({k \in DroppedPairs : before[k][1] = value})

DroppedValues ==
  LET before == PhiPairs(context.optimizedWords, CompactedWordIndex)
  IN {before[k][1] : k \in DroppedPairs}

\* The producer of value loses one out degree per dropped pair and is deleted at zero.
ProducerReleased(value) ==
  LET p == shader.results[value + 1]
  IN /\ context'.instructionOutDegrees[p + 1] =
          context.instructionOutDegrees[p + 1] - DroppedCount(value)
     /\ context'.instructionOutDegrees[p + 1] = 0 =>
          Deleted(context', InstructionWordIndex(shader, p))

\* C5 (as the specification states it): every OpPhi of the output has exactly the
\* pairs of the original, in order, whose parent block is present and still branches
\* to the phi's block, in 3 + 2k words; for every dropped pair the producer of the
\* value loses one out degree and is deleted when it reaches zero.
C5_PhiKeepsLivePairsAndReleasesAll ==
  /\ [](RunSucceeded => OutputPhisCompacted)
  /\ [][CompactingPhi => \A value \in DroppedValues : ProducerReleased(value)]_vars

\* C5 (amended): the same, where the producer of a dropped pair loses an out degree
\* only if it has not been deleted already; the counter of a deleted producer stays.
C5_PhiKeepsLivePairsAndReleasesLive ==
  /\ [](RunSucceeded => OutputPhisCompacted)
  /\ [][CompactingPhi =>
          \A value \in DroppedValues :
            IF Deleted(context, ResultWordIndex(shader, value))
              THEN context'.instructionOutDegrees[shader.results[value + 1] + 1] =
                     context.instructionOutDegrees[shader.results[value + 1] + 1]
            ELSE ProducerReleased(value)]_vars

\* A run has dropped the pair of %B from the phi: the output phi holds the pair of %A
\* alone, and the constant the dropped pair named, released at zero, is gone.
C5_Witness ==
  /\ RunSucceeded
  /\ HasInstruction(OptimizedData, Instr(SpvOpPhi, <<Id.uint, Id.r, Id.va, Id.A>>))
  /\ HasInstruction(data, Instr(SpvOpConstant, <<Id.uint, Id.c0, 0>>))
  /\ ~HasInstruction(OptimizedData, Instr(SpvOpConstant, <<Id.uint, Id.c0, 0>>))

\* ---------------------------------------------------------------- C6

\* C6 (as the specification states it): after a successful run with the default
\* options no OpBranchConditional or OpSwitch of the output has a guard that resolved
\* to a constant.
C6_NoConstantGuardLeft ==
  (RunSucceeded /\ options = DefaultOptions) =>
    LET ins == InstructionsOf(OptimizedData)
    IN \A k \in 1..Len(ins) : ~GuardIsConstant(OptimizedData, ins[k])

\* C6 (amended): after a successful run with the default options the only
\* instructions of the output with a guard that resolved to a constant are the folded
\* switches, of three words, whose selector is the default switch constant; no
\* OpBranchConditional has one.
C6_ConstantGuardOnlyOnFoldedSwitch ==
  (RunSucceeded /\ options = DefaultOptions) =>
    LET ins == InstructionsOf(OptimizedData)
    IN \A k \in 1..Len(ins) :
         GuardIsConstant(OptimizedData, ins[k]) =>
           /\ Word(OptimizedData, ins[k]) = HeaderWord(SpvOpSwitch, 3)
           /\ Word(OptimizedData, ins[k] + 1) = shader.defaultSwitchOpConstantInt

\* A run with the default options has folded one branch and left another, whose
\* guard is not constant, in the output.
C6_Witness ==
  /\ RunSucceeded /\ options = DefaultOptions
  /\ HasOpCode(OptimizedData, SpvOpBranchConditional)
  /\ HasInstruction(OptimizedData, Instr(SpvOpBranch, <<Id.A>>))
  /\ ~HasInstruction(data, Instr(SpvOpBranch, <<Id.A>>))

\* ---------------------------------------------------------------- C7

\* The ids the instructions of ws produce.
ResultIds(ws) ==
  LET ins == InstructionsOf(ws)
  IN {Word(ws, ins[k] + (IF SpvHasType(OpCodeOf(Word(ws, ins[k]))) THEN 2 ELSE 1)) :
        k \in {m \in 1..Len(ins) : SpvHasResult(OpCodeOf(Word(ws, ins[m])))}}

SeqRange(s) == {s[k] : k \in 1..Len(s)}

\* The ids the instruction at wordIndex names: its result type, its id operands, its
\* branch and merge targets and the parents of a phi.
ReferencedIds(ws, wordIndex) ==
  LET opCode == OpCodeOf(Word(ws, wordIndex))
      wordCount == WordCountOf(Word(ws, wordIndex))
  IN (IF SpvHasType(opCode) THEN {Word(ws, wordIndex + 1)} ELSE {})
     \cup SeqRange(OperandIds(ws, wordIndex, wordCount, opCode))
     \cup SeqRange(LabelIds(ws, wordIndex, wordCount, opCode))
     \cup (IF opCode = SpvOpPhi THEN SeqRange(PhiParentIds(ws, wordIndex, wordCount))
           ELSE {})

NoDanglingReference(ws) ==
  LET ins == InstructionsOf(ws)
  IN \A k \in 1..Len(ins) :
       OpCodeOf(Word(ws, ins[k])) \notin {SpvOpDecorate, SpvOpMemberDecorate} =>
         ReferencedIds(ws, ins[k]) \subseteq ResultIds(ws)

\* C7: after a successful run on a valid module every id that an instruction of the
\* output other than a decoration names (result type, operand, branch or merge
\* target, phi value or parent) is produced by an instruction of the output.
C7_NoDanglingReference ==
  (RunSucceeded /\ PhisWellFormed /\ NoDanglingReference(data))
    => NoDanglingReference(OptimizedData)

\* ---------------------------------------------------------------- C8

\* C8: after every successful run, whatever the overrides and the options, the first
\* five words of the output are the first five words of the input.
C8_HeaderPreserved == RunSucceeded => HeaderOf(OptimizedData) = HeaderOf(data)

\* A run with an override has rewritten and removed instructions.
C8_Witness ==
  /\ RunSucceeded /\ ~NoOverrides
  /\ OptimizedData /= WithoutOpCodes(data, DebugOpCodes)
  /\ OptimizedData /= data
  /\ Len(HeaderOf(OptimizedData)) = StartingWordIndex

\* ---------------------------------------------------------------- C9

\* C9: the output of a successful run is no longer than the input, and while
\* optimizerCompactData copies, its write cursor is never past the instruction it is
\* about to read nor, at the end, past the end of the buffer.
C9_OutputNoLongerCursorBehind ==
  /\ RunSucceeded => Len(OptimizedData) <= Len(data)
  /\ pc = "compactData" =>
       optimizedWordCount <=
         (IF compactIndex < Len(shader.instructions)
            THEN InstructionWordIndex(shader, compactIndex) ELSE Len(data))

\* The compaction is under way with the cursor strictly behind the instruction it is
\* about to copy down.
C9_Witness ==
  /\ pc = "compactData" /\ compactIndex < Len(shader.instructions)
  /\ optimizedWordCount < InstructionWordIndex(shader, compactIndex)
  /\ ~Deleted(context, InstructionWordIndex(shader, compactIndex))

\* ---------------------------------------------------------------- C10

\* The override names a SpecId of the specialization table whose target is an
\* OpSpecConstant with another number of literal words than the override has values.
ValueCountDiffers(newSpecConstant) ==
  /\ newSpecConstant.specId < Len(shader.specializations)
  /\ LET target == shader.specializations[newSpecConstant.specId + 1]
                     .constantInstructionIndex
         header == Word(data, InstructionWordIndex(shader, target))
     IN /\ target /= UINT32_MAX
        /\ OpCodeOf(header) = SpvOpSpecConstant
        /\ WordCountOf(header) - 3 /= Len(newSpecConstant.values)

\* The override names a SpecId of the table whose target is no specialization constant.
TargetIsNoSpecConstant(newSpecConstant) ==
  /\ newSpecConstant.specId < Len(shader.specializations)
  /\ LET target == shader.specializations[newSpecConstant.specId + 1]
                     .constantInstructionIndex
         header == Word(data, InstructionWordIndex(shader, target))
     IN /\ target /= UINT32_MAX
        /\ OpCodeOf(header) \notin
             {SpvOpSpecConstant, SpvOpSpecConstantTrue, SpvOpSpecConstantFalse}

RunIsPastPatch == pc \in {"evaluate", "decorations", "phis", "compact", "compactData",
                          "done", "failed"}

\* C10: a run fails when one of its overrides names a SpecId of the specialization
\* table and the target is an OpSpecConstant whose literal word count differs from the
\* number of values, or the target is not a specialization constant.
C10_BadOverrideFails ==
  (RunIsPastPatch
     /\ \E k \in 1..Len(newSpecConstants) :
          \/ ValueCountDiffers(newSpecConstants[k])
          \/ TargetIsNoSpecConstant(newSpecConstants[k]))
    => RunFailed

\* A run given two values for an OpSpecConstant of one literal word has failed.
C10_Witness ==
  /\ RunFailed
  /\ \E k \in 1..Len(newSpecConstants) :
       ValueCountDiffers(newSpecConstants[k]) /\ Len(newSpecConstants[k].values) = 2

\* ---------------------------------------------------------------- C11

\* C11: when Optimizer::run fails (a bad override, a phi without an enclosing label,
\* an unresolved operand), the caller's buffer holds no output: neither a copy of the
\* module nor a partially patched one, also when an earlier override of the same call
\* was applied before the failing one.
C11_NoPartialOutputOnFailure == RunFailed => OptimizedData = <<>>


\* ---------------------------------------------------------------- C12

\* The override names a SpecId the Shader's table holds no constant for.
Undecorated(sh, specConstant) ==
  \/ UGreaterEqual(specConstant.specId, Len(sh.specializations))
  \/ sh.specializations[specConstant.specId + 1].constantInstructionIndex = UINT32_MAX

RunReturned == RunSucceeded \/ RunFailed

\* The call has returned and the last override of its list is an undecorated one.
ReturnedWithUndecoratedLast ==
  /\ RunReturned
  /\ newSpecConstants /= <<>>
  /\ Undecorated(shader, newSpecConstants[Len(newSpecConstants)])

\* C12: an override whose SpecId no SpecId decoration of the module names is ignored:
\* the call with the list O followed by such an override, its values empty or not,
\* succeeds exactly when the call with O does and leaves the same bytes.
C12_UndecoratedOverrideIgnored ==
  ReturnedWithUndecoratedLast =>
    LET Same(r) == r.ok = RunSucceeded /\ r.context.optimizedWords = OptimizedData
    IN Same(Run(EmptyContext, shader,
                SubSeq(newSpecConstants, 1, Len(newSpecConstants) - 1), options))

\* A call that succeeded on an applied override followed by an undecorated one
\* without values.
C12_Witness ==
  /\ RunSucceeded
  /\ Len(newSpecConstants) = 2
  /\ ~Undecorated(shader, newSpecConstants[1])
  /\ Undecorated(shader, newSpecConstants[2])
  /\ newSpecConstants[2].values = <<>>
  /\ OptimizedData /= data

\* The same for a call that failed at the override before the undecorated one.
C12_FailedWitness ==
  /\ RunFailed
  /\ Len(newSpecConstants) = 2
  /\ Undecorated(shader, newSpecConstants[2])

\* The passes taken one step at a time end where the whole call ends.
StepsAgreeWithRun ==
  RunReturned =>
    LET Same(r) == r.ok = RunSucceeded /\ r.context = context
    IN Same(Run(EmptyContext, shader, newSpecConstants, options))

\* ---------------------------------------------------------------- C13

\* Shader::parse has returned, or its loop over the words will never end.
ParseEnded == pc \in {"parsed", "parseFailed"}

ParseFailed == ParseEnded /\ parseResult = "fail"

ParseSucceeded == ParseEnded /\ parseResult = "ok"

HasUnsupportedOpCode(ws) ==
  LET ins == InstructionsOf(ws)
  IN \E k \in 1..Len(ins) : OpCodeOf(Word(ws, ins[k])) \notin SupportedOpCodes

\* C13: parse fails for every module that contains, at any position of its stream,
\* an instruction whose opcode is outside the supported set.
C13_UnsupportedOpcodeFails ==
  (ParseEnded /\ HasUnsupportedOpCode(data)) => parseResult = "fail"

\* Parse has failed on a module whose last instruction is an OpGroupNonUniformBallot
\* and all of whose other instructions are supported.
C13_Witness ==
  /\ ParseFailed
  /\ Len(shader.instructions) > 1
  /\ LET ins == InstructionsOf(data)
     IN /\ OpCodeOf(Word(data, ins[Len(ins)])) = SpvOpGroupNonUniformBallot
        /\ \A k \in 1..(Len(ins) - 1) : OpCodeOf(Word(data, ins[k])) \in SupportedOpCodes

\* ---------------------------------------------------------------- C14

\* Every instruction of the stream has a word count above 0 and the last one ends
\* with the buffer.
RECURSIVE FramedFrom(_, _)
FramedFrom(ws, wordIndex) ==
  IF wordIndex >= Len(ws) THEN wordIndex = Len(ws)
  ELSE /\ WordCountOf(Word(ws, wordIndex)) > 0
       /\ FramedFrom(ws, wordIndex + WordCountOf(Word(ws, wordIndex)))

WellFramed(ws) == FramedFrom(ws, StartingWordIndex)

\* Some instruction names, as its result type, an id operand (the target of a
\* decoration is one), a label operand or a phi predecessor, an id that no instruction
\* of the module produces; an id at or above the bound is such an id unless an
\* instruction has it as its result.
HasUnproducedReference(ws) ==
  LET ins == InstructionsOf(ws)
  IN \E k \in 1..Len(ins) : ~(ReferencedIds(ws, ins[k]) \subseteq ResultIds(ws))

\* Some instruction has a result id at or above the id bound of the header.
HasResultBeyondBound(ws) == \E id \in ResultIds(ws) : UGreaterEqual(id, Word(ws, 3))

\* The instruction at position k of ins produces id.
Produces(ws, ins, k, id) ==
  /\ SpvHasResult(OpCodeOf(Word(ws, ins[k])))
  /\ Word(ws, ins[k] + (IF SpvHasType(OpCodeOf(Word(ws, ins[k]))) THEN 2 ELSE 1)) = id

\* Some instruction names an id whose only producers come later in the stream.
HasForwardReference(ws) ==
  LET ins == InstructionsOf(ws)
  IN \E k \in 1..Len(ins) : \E id \in ReferencedIds(ws, ins[k]) :
       /\ \E j \in (k + 1)..Len(ins) : Produces(ws, ins, j, id)
       /\ \A j \in 1..k : ~Produces(ws, ins, j, id)

\* C14 as stated: parse fails when an instruction names, as its result type, an id
\* operand, a label operand, an OpPhi predecessor or the target of a SpecId decoration,
\* an id at or above the id bound, an id no instruction produces, or an id whose
\* producer appears later in the stream.
C14_BadOrForwardReferenceFails ==
  (ParseEnded /\ WellFramed(data)
     /\ (HasUnproducedReference(data) \/ HasResultBeyondBound(data)
         \/ HasForwardReference(data)))
    => parseResult = "fail"

\* C14, amended: in a well-framed module, parse fails when an instruction names in
\* one of these roles an id at or above the id bound or an id that no instruction of
\* the module produces, and when a result id is at or above the bound; a reference to
\* an id whose producer appears later in the stream is accepted.
C14_UnproducedReferenceFails ==
  (ParseEnded /\ WellFramed(data)
     /\ (HasUnproducedReference(data) \/ HasResultBeyondBound(data)))
    => parseResult = "fail"

\* Parse has failed on the module whose phi names, as a predecessor, an id below the
\* bound that no instruction produces.
C14_Witness ==
  /\ ParseFailed
  /\ data = SetWord(BaseModule, FirstOf(BaseModule, SpvOpPhi) + 4, Id.free)
  /\ HasUnproducedReference(data)
  /\ ~HasResultBeyondBound(data)

\* A valid module, with its forward references, has parsed.
C14_ForwardReferenceParsed ==
  ParseSucceeded /\ HasForwardReference(data) /\ ~HasUnproducedReference(data)

\* ---------------------------------------------------------------- C15

\* Two instructions of the stream have the same result id.
HasDuplicateResult(ws) ==
  LET ins == InstructionsOf(ws)
  IN \E j \in 1..Len(ins) : \E k \in (j + 1)..Len(ins) :
       /\ SpvHasResult(OpCodeOf(Word(ws, ins[j])))
       /\ Produces(ws, ins, k, Word(ws, ins[j] + (IF SpvHasType(OpCodeOf(Word(ws, ins[j])))
                                                    THEN 2 ELSE 1)))

\* C15: parse fails when two instructions produce the same result id, so that after
\* a successful parse every result id has exactly one producing instruction.
C15_DuplicateResultFails ==
  /\ (ParseEnded /\ WellFramed(data) /\ HasDuplicateResult(data)) => parseResult = "fail"
  /\ ParseSucceeded => ~HasDuplicateResult(data)

\* ---------------------------------------------------------------- C16

\* C16: on a stream with an instruction whose word count is 0, or whose word count
\* runs past the end of the buffer, parse terminates and returns failure; the
\* outcome "hang" stands for a parseWords loop that never advances.
C16_BadFramingFails ==
  (ParseEnded /\ ~WellFramed(data)) => parseResult = "fail"

\* ---------------------------------------------------------------- C17

HasOpSwitch(ws) ==
  LET ins == InstructionsOf(ws)
  IN \E k \in 1..Len(ins) : OpCodeOf(Word(ws, ins[k])) = SpvOpSwitch

\* Instruction k is an OpConstant whose type is produced by an OpTypeInt of one of
\* the widths.
IsIntConstant(ws, ins, k, widths) ==
  /\ OpCodeOf(Word(ws, ins[k])) = SpvOpConstant
  /\ \E j \in 1..Len(ins) :
       /\ OpCodeOf(Word(ws, ins[j])) = SpvOpTypeInt
       /\ Word(ws, ins[j] + 1) = Word(ws, ins[k] + 1)
       /\ Word(ws, ins[j] + 2) \in widths

\* The statement of C17 for an OpTypeInt of one of the widths.
SwitchNeedsIntConstant(widths) ==
  LET ins == InstructionsOf(data)
  IN /\ (ParseEnded /\ WellFramed(data) /\ HasOpSwitch(data)
          /\ ~\E k \in 1..Len(ins) : IsIntConstant(data, ins, k, widths))
        => parseResult = "fail"
     /\ (ParseSucceeded /\ HasOpSwitch(data))
        => \E k \in 1..Len(ins) :
             /\ IsIntConstant(data, ins, k, widths)
             /\ Produces(data, ins, k, shader.defaultSwitchOpConstantInt)

IntWidths == {8, 16, 32, 64}

\* C17 (as stated): parse fails when the module has an OpSwitch and no OpConstant
\* whose type is a 32-bit integer; after a successful parse of a module with an
\* OpSwitch the remembered default constant is the result id of an OpConstant of
\* 32-bit integer type.
C17_SwitchNeedsInt32Constant == SwitchNeedsIntConstant({32})

\* C17 (amended): the same with an OpConstant whose type is an OpTypeInt of any width.
C17_SwitchNeedsIntConstant == SwitchNeedsIntConstant(IntWidths)

C17_Witness ==
  /\ ParseSucceeded
  /\ data = NarrowIntSwitchModule
  /\ shader.defaultSwitchOpConstantInt = Id.c0

C17_FailedWitness ==
  /\ ParseFailed
  /\ data = FloatSwitchModule

\* ---------------------------------------------------------------- C18

\* The call that has returned gave the verdict and left the caller's vector as a
\* first call on a fresh thread with an empty vector does.
ReturnedAsFirstCall ==
  LET Same(alone) == /\ (pc = "done") = alone.ok
                     /\ context.optimizedWords = alone.context.optimizedWords
  IN RunReturned => Same(Run(EmptyContext, shader, newSpecConstants, options))

\* No step of Optimizer::run writes the Shader.
RunKeepsShader ==
  pc \in {"parsed", "patch", "evaluate", "decorations", "phis", "compact", "compactData"}
    => shader' = shader

\* C18: a run call never modifies the Shader, and the result and output of every call
\* of a sequence of calls on one thread are those of the same call made alone, whatever
\* the earlier calls returned and whichever shader they used.
C18_RunCallsIndependent == [][RunKeepsShader]_vars /\ []ReturnedAsFirstCall

C18_Witness ==
  /\ pc = "done"
  /\ previous /= NoCall
  /\ previous.data /= data
  /\ ~previous.ok
  /\ Len(previous.data) > Len(data)
  /\ newSpecConstants /= <<>>
  /\ options.removeDeadCode

C18_SameShaderWitness ==
  /\ pc = "failed"
  /\ previous /= NoCall
  /\ previous.data = data
  /\ previous.ok

\* ---------------------------------------------------------------- C19

InRun(t) == threads[t].pc \in {"patch", "evaluate", "decorations", "phis", "compact"}

ThreadReturned(t) == threads[t].pc \in {"done", "failed"}

\* The call of thread t has returned what it returns when it runs alone, with the
\* same bytes in its caller's vector.
ReturnedAsAlone(t) ==
  LET Same(alone) == /\ (threads[t].pc = "done") = alone.ok
                     /\ threads[t].optimizedWords = alone.context.optimizedWords
  IN ThreadReturned(t)
       => Same(Run(EmptyContext, shader, threads[t].newSpecConstants, threads[t].options))

\* A step of a thread that is in Optimizer::run leaves the Shader as it is.
ThreadsKeepShader == (\E t \in Threads : threads'[t] /= threads[t]) => shader' = shader

\* C19: two run calls on different threads against one parsed Shader, each with its
\* own output vector, return under every interleaving of their passes what they return
\* alone, and the Shader is never written.
C19_ConcurrentRunsDoNotInterfere ==
  [][ThreadsKeepShader]_vars /\ [](\A t \in Threads : ReturnedAsAlone(t))

\* The first thread has returned true while the second, which was called with other
\* overrides and has folded its branch, is between two of its passes.
C19_Witness ==
  /\ threads[1].pc = "done"
  /\ threads[2].pc = "phis"
  /\ threads[2].options.removeDeadCode
  /\ threads[1].options.removeDeadCode
  /\ threads[1].newSpecConstants /= threads[2].newSpecConstants
  /\ threads[1].newSpecConstants /= <<>>
  /\ threads[2].newSpecConstants /= <<>>
  /\ threads[2].instructionInDegrees /= shader.instructionInDegrees

C19_BothReturnedWitness ==
  /\ threads[1].pc = "done"
  /\ threads[2].pc = "done"
  /\ threads[1].optimizedWords /= threads[2].optimizedWords

\* ---------------------------------------------------------------- C20

\* Parsing the output of the call that has returned and running on it with the same
\* overrides and options gives the same bytes.
SecondRunGivesSameBytes ==
  LET Again(second) == /\ second.ok
                       /\ second.context.optimizedWords = OptimizedData
      Reparsed(parsed) ==
        /\ parsed.result = "ok"
        /\ Again(Run(EmptyContext, parsed.shader, newSpecConstants, options))
  IN Reparsed(Parse(EmptyShader, OptimizedData))

\* C20: whenever run(S, A) succeeds, run(parse(run(S, A)), A) = run(S, A).
C20_OverrideIdempotent == RunSucceeded => SecondRunGivesSameBytes

\* ---------------------------------------------------------------- C21

SpecIdsOf(overrides) == {overrides[k].specId : k \in 1..Len(overrides)}

\* run(shader, A) succeeds, its output parses, and run on it with B gives the bytes
\* the call that has returned gave.
ComposedGivesSameBytes(A, B) ==
  LET Second(r) == r.ok /\ r.context.optimizedWords = OptimizedData
      Reparsed(parsed) ==
        /\ parsed.result = "ok"
        /\ Second(Run(EmptyContext, parsed.shader, B, options))
      First(r) == r.ok /\ Reparsed(Parse(EmptyShader, r.context.optimizedWords))
  IN First(Run(EmptyContext, shader, A, options))

\* C21: for override lists A and B with disjoint specIds, run(shader, A ++ B) gives
\* the bytes of run(parse(run(shader, A)), B).
C21_Composition ==
  RunSucceeded =>
    \A n \in 0..Len(newSpecConstants) :
      LET A == [k \in 1..n |-> newSpecConstants[k]]
          B == [k \in 1..(Len(newSpecConstants) - n) |-> newSpecConstants[n + k]]
      IN SpecIdsOf(A) \cap SpecIdsOf(B) = {} => ComposedGivesSameBytes(A, B)

\* ---------------------------------------------------------------- C22

\* C22: parsing a module into a Shader object that parsed another module before gives
\* the verdict and the Shader state that parsing it into a fresh object gives.
C22_ParseResetsShader ==
  LET AsFresh(fresh) == parseResult = fresh.result /\ shader = fresh.shader
  IN (ParseEnded /\ previous /= NoCall) => AsFresh(Parse(EmptyShader, data))

\* ---------------------------------------------------------------- C23

\* How often the words of instruction k name id as the result type or as an id
\* operand of the operand layout, and how often as an OpPhi predecessor label.
OperandUses(ws, ins, k, id) ==
  LET opCode == OpCodeOf(Word(ws, ins[k]))
      wordCount == WordCountOf(Word(ws, ins[k]))
  IN (IF SpvHasType(opCode) /\ Word(ws, ins[k] + 1) = id THEN 1 ELSE 0)
     + CountOf(OperandIds(ws, ins[k], wordCount, opCode), id)

PhiParentUses(ws, ins, k, id) ==
  IF OpCodeOf(Word(ws, ins[k])) = SpvOpPhi
    THEN CountOf(PhiParentIds(ws, ins[k], WordCountOf(Word(ws, ins[k]))), id)
  ELSE 0

\* After a successful parse the out degree of the producer of every result id is the
\* number of its uses over all instructions, the phi predecessor uses counted or not.
OutDegreesCountUses(withPhiParents) ==
  LET ins == InstructionsOf(data)
      Uses(id) ==
        SumOf([k \in 1..Len(ins) |->
                 OperandUses(data, ins, k, id)
                 + (IF withPhiParents THEN PhiParentUses(data, ins, k, id) ELSE 0)],
              Len(ins))
  IN ParseSucceeded =>
       \A id \in 0..(Len(shader.results) - 1) :
         shader.results[id + 1] /= UINT32_MAX =>
           shader.instructionOutDegrees[shader.results[id + 1] + 1] = Uses(id)

\* C23 (as stated): the out degree of the producer of r is the number of times r is a
\* result type or an id operand; OpPhi predecessor labels count for no out degree.
C23_OutDegreeCountsOperandUses == OutDegreesCountUses(FALSE)

\* C23 (amended): the occurrences of r as an OpPhi predecessor label count as well.
C23_OutDegreeCountsUsesAndPhiParents == OutDegreesCountUses(TRUE)

\* A parsed module in which a label is the predecessor of a phi and has the phi in
\* its out degree.
C23_Witness ==
  LET ins == InstructionsOf(data)
  IN /\ ParseSucceeded
     /\ \E id \in 0..(Len(shader.results) - 1), k \in 1..Len(ins) :
          /\ shader.results[id + 1] /= UINT32_MAX
          /\ PhiParentUses(data, ins, k, id) > 0
          /\ shader.instructionOutDegrees[shader.results[id + 1] + 1] > 0

\* ---------------------------------------------------------------- C24

\* The order names every instruction exactly once.
OrderIsPermutation(sh) ==
  /\ Len(sh.instructionOrder) = Len(sh.instructions)
  /\ \A i \in 0..(Len(sh.instructions) - 1) : CountOf(sh.instructionOrder, i) = 1

PositionIn(order, i) == CHOOSE k \in 1..Len(order) : order[k] = i

\* Every instruction comes in the order after the producers of its result type and
\* of its id operands.
ProducersComeFirst(sh) ==
  LET ins == InstructionsOf(sh.spirvWords)
  IN \A k \in 1..Len(ins) : \A id \in 0..(Len(sh.results) - 1) :
       (OperandUses(sh.spirvWords, ins, k, id) > 0 /\ sh.results[id + 1] /= k - 1)
         => PositionIn(sh.instructionOrder, sh.results[id + 1])
              < PositionIn(sh.instructionOrder, k - 1)

\* The use graph of the module has a cycle through an OpPhi: a phi names a value whose
\* producer names the phi.
HasLoopCarriedPhi(ws) ==
  LET ins == InstructionsOf(ws)
  IN \E k \in 1..Len(ins), j \in 1..Len(ins) :
       /\ OpCodeOf(Word(ws, ins[k])) = SpvOpPhi
       /\ \E id \in 0..(Id.bound - 1) :
            Produces(ws, ins, j, id) /\ OperandUses(ws, ins, k, id) > 0
       /\ \E id \in 0..(Id.bound - 1) :
            Produces(ws, ins, k, id) /\ OperandUses(ws, ins, j, id) > 0

\* C24: parse of a module that process accepts ends without a fault, and after it the
\* instruction order is a permutation of all instruction indices in which every
\* instruction comes after the producers of its type and id operands, also when the
\* use graph has a cycle through an OpPhi.
C24_OrderIsTopologicalPermutation ==
  /\ parseResult /= "fault"
  /\ ParseSucceeded => OrderIsPermutation(shader) /\ ProducersComeFirst(shader)

\* ---------------------------------------------------------------- C25

\* The evaluation pass has visited the division Id.v of the module.
DivisionVisited ==
  /\ pc \in {"evaluate", "decorations", "phis", "compact", "compactData", "done"}
  /\ options.removeDeadCode
  /\ context.resolutions[Id.v + 1].type /= "Unknown"

DivisionWord(k) == Word(data, FirstOf(data, SpvOpINotEqual) - 5 + k)

Dividend == context.resolutions[DivisionWord(3) + 1]

Divisor == context.resolutions[DivisionWord(4) + 1]

\* The quotient of the two values: of the unsigned values for OpUDiv (for a dividend
\* below 2^31), truncated towards zero for OpSDiv.
Quotient(pOpCode, a, b) ==
  IF a >= 0 THEN a \div b
  ELSE IF pOpCode = SpvOpSDiv THEN -((-a) \div b)
  ELSE IF b = 1 THEN a
  ELSE (((a + 2147483647) + 1) \div b) + (1073741824 \div b) * 2

\* C25: an OpUDiv or OpSDiv of two Constant operands with the divisor zero does not
\* fault and resolves to Variable; with another divisor it resolves to the quotient.
C25_DivisionByZeroIsVariable ==
  /\ pc /= "fault"
  /\ (DivisionVisited /\ Dividend.type = "Constant" /\ Divisor.type = "Constant")
       => IF Divisor.value = 0
            THEN context.resolutions[Id.v + 1].type = "Variable"
          ELSE context.resolutions[Id.v + 1] =
                 FromUint32(Quotient(OpCodeOf(DivisionWord(0)), Dividend.value,
                                     Divisor.value))

\* ---- C26 ----
\* The instructions of the shader that are an OpLabel whose words are in the output.
RemainingLabels ==
  {i \in 0..(Len(shader.instructions) - 1) :
     /\ OpCodeOf(Word(data, InstructionWordIndex(shader, i))) = SpvOpLabel
     /\ HasLabel(OptimizedData, LabelIdOf(i))}

\* The label that opens a function: the instruction before it is the OpFunction or one
\* of its parameters.
IsFirstLabelOfFunction(i) ==
  /\ i > 0
  /\ OpCodeOf(Word(data, InstructionWordIndex(shader, i - 1))) \in {SpvOpFunction, SpvOpFunctionParameter}

LabelsKeepInDegree(labels) ==
  \A i \in labels : context.instructionInDegrees[i + 1] >= 1

\* C26 as stated: after a run every OpLabel of the output has a working in degree of at
\* least 1, the first label of each function included.
C26_EveryRemainingLabelHasInDegree ==
  RunSucceeded => LabelsKeepInDegree(RemainingLabels)

\* C26: after a run every OpLabel of the output that a terminator or a merge of the
\* parsed module names has a working in degree of at least 1; a label that none names
\* has in degree 0 from parse on and stays in the output, and the first label of a
\* function is such a label.
C26_RemainingBranchedLabelsHaveInDegree ==
  RunSucceeded =>
    /\ LabelsKeepInDegree(RemainingLabels \cap BranchedLabels)
    /\ \A i \in RemainingLabels \ BranchedLabels : context.instructionInDegrees[i + 1] = 0
    /\ \A i \in RemainingLabels : IsFirstLabelOfFunction(i) => i \notin BranchedLabels

\* A run that deleted a block and kept other branched labels.
C26_Witness ==
  /\ RunSucceeded
  /\ options.removeDeadCode
  /\ \E i \in BranchedLabels : i \notin RemainingLabels
  /\ \E i \in RemainingLabels : ~IsFirstLabelOfFunction(i)

\* ---- C27 ----
\* The ids the decorations of ws target.
DecoratedIds(ws) ==
  LET ins == InstructionsOf(ws)
  IN {Word(ws, ins[k] + 1) :
        k \in {m \in 1..Len(ins) :
                 OpCodeOf(Word(ws, ins[m])) \in {SpvOpDecorate, SpvOpMemberDecorate}}}

\* C27: after a successful run with removeDeadCode no decoration of the output targets
\* an id whose producer was deleted, the producers deleted by the final phi compaction
\* included.
C27_NoDecorationOfDeletedProducer ==
  (RunSucceeded /\ options.removeDeadCode /\ DecoratedIds(data) \subseteq ResultIds(data))
    => DecoratedIds(OptimizedData) \subseteq ResultIds(OptimizedData)

\* The producer of a decorated id was deleted with its block, and the decoration with
\* it; the final phi compaction dropped the pair that names the other decorated
\* producer, which stays in the output with its decoration.
C27_Witness ==
  /\ RunSucceeded
  /\ options.removeDeadCode
  /\ Id.free \in DecoratedIds(data) \cap ResultIds(data)
  /\ Id.free \notin ResultIds(OptimizedData)
  /\ Id.free \notin DecoratedIds(OptimizedData)
  /\ Id.va \in SeqRange(OperandIds(data, FirstOf(data, SpvOpPhi), 7, SpvOpPhi))
  /\ HasInstruction(OptimizedData, Instr(SpvOpPhi, <<Id.uint, Id.r, Id.c0, Id.entry>>))
  /\ Id.va \in DecoratedIds(OptimizedData) \cap ResultIds(OptimizedData)

\* The final phi compaction has a pair to drop: the block of its parent was deleted
\* after the evaluation pass visited the phi.
C27_FinalPassWitness ==
  /\ pc = "phis"
  /\ phiIndex = 0
  /\ options.removeDeadCode
  /\ Deleted(context, ResultWordIndex(shader, Id.B))
  /\ Id.B \in SeqRange(PhiParentIds(context.optimizedWords, FirstOf(data, SpvOpPhi), 7))

\* ---- C28 ----
\* It is about to visit a live OpBranchConditional whose guard resolved to a constant.
FoldingBranch ==
  /\ Evaluating
  /\ ~Deleted(context, EvaluatedWordIndex)
  /\ OpCodeOf(Word(context.optimizedWords, EvaluatedWordIndex)) = SpvOpBranchConditional
  /\ GuardIsConstant(context.optimizedWords, EvaluatedWordIndex)

\* The word index of the instruction before the one being visited.
PrecedingWordIndex ==
  InstructionWordIndex(shader, shader.instructionOrder[orderIndex + 1] - 1)

PrecededByMerge ==
  OpCodeOf(Word(context.optimizedWords, PrecedingWordIndex)) = SpvOpSelectionMerge

\* The buffer and the degrees after the fold as stated: the label not taken is reduced;
\* after an OpSelectionMerge the merge target is reduced once and OpBranch chosen is
\* written in the merge slot, after any other instruction it is written over the
\* conditional branch; the words up to the end of the branch are deleted and the use
\* of the guard is released.
FoldedAsStated ==
  LET wordIndex == EvaluatedWordIndex
      ws == context.optimizedWords
      wordCount == WordCountOf(Word(ws, wordIndex))
      operatorId == Word(ws, wordIndex + 1)
      taken == context.resolutions[operatorId + 1].value /= 0
      chosen == IF taken THEN Word(ws, wordIndex + 2) ELSE Word(ws, wordIndex + 3)
      other == IF taken THEN Word(ws, wordIndex + 3) ELSE Word(ws, wordIndex + 2)
      slot == IF PrecededByMerge THEN PrecedingWordIndex ELSE wordIndex
      Merged(c1) ==
        IF PrecededByMerge
          THEN ReduceLabelDegree(c1, shader, Word(ws, PrecedingWordIndex + 1))
        ELSE c1
      Rewritten(c2) ==
        [c2 EXCEPT !.optimizedWords =
           FillWords(SetWord(SetWord(@, slot, HeaderWord(SpvOpBranch, 2)), slot + 1, chosen),
                     slot + 2, wordIndex + wordCount, UINT32_MAX)]
  IN ReduceResultDegrees(Rewritten(Merged(ReduceLabelDegree(context, shader, other))),
                         shader, <<operatorId>>)

BranchFoldsAsStated ==
  FoldingBranch =>
    LET Same(stated) ==
          /\ context'.optimizedWords = stated.optimizedWords
          /\ context'.instructionInDegrees = stated.instructionInDegrees
          /\ context'.instructionOutDegrees = stated.instructionOutDegrees
    IN Same(FoldedAsStated)

\* C28: folding an OpBranchConditional rewrites the preceding instruction only when it
\* is an OpSelectionMerge (the merge slot becomes OpBranch chosen and the merge target
\* loses one in degree); after any other instruction, whatever its word count and its
\* operand words, only the words of the OpBranchConditional are rewritten and no merge
\* target is reduced.
C28_MergeSlotOnlyAfterSelectionMerge == [][BranchFoldsAsStated]_vars

\* ---- C29 ----
\* C29: run terminates on every successfully parsed shader, control flow graphs with
\* cycles included: every step of the call moves it to another position, and once
\* parse has succeeded the call of run returns.
C29_RunTerminates ==
  /\ [][position' /= position]_vars
  /\ ParseSucceeded ~> RunReturned

\* A run on a module with a loop returned after deleting a block that branches into
\* the loop.
C29_Witness ==
  /\ RunSucceeded
  /\ options.removeDeadCode
  /\ HasOpCode(data, SpvOpLoopMerge)
  /\ HasLabel(data, Id.A)
  /\ ~HasLabel(OptimizedData, Id.A)

\* A run returned after folding the conditional branch of a loop header.
C29_LoopHeaderWitness ==
  /\ RunSucceeded
  /\ options.removeDeadCode
  /\ data = Preamble(FALSE, Id.s, "int", FALSE) \o LoopHeaderBody(Id.E)
  /\ ~HasOpCode(OptimizedData, SpvOpBranchConditional)

\* ---- C30 ----
\* The degree vectors of the run hold unsigned 32-bit counters: one that was
\* decremented at zero has wrapped and reads as a negative number here.
NoDegreeBelowZero(c) ==
  /\ \A k \in 1..Len(c.instructionOutDegrees) : c.instructionOutDegrees[k] >= 0
  /\ \A k \in 1..Len(c.instructionInDegrees) : c.instructionInDegrees[k] >= 0

\* C30: during run no degree counter is decremented below zero, neither the out degree
\* of a producer by the result cascade nor the in degree of a label.
C30_NoDegreeBelowZero == NoDegreeBelowZero(context)

\* A run folded both conditional branches of one guard: the second release brought the
\* out degree of the comparison to zero and deleted it.
C30_Witness ==
  /\ RunSucceeded
  /\ options.removeDeadCode
  /\ data = Preamble(FALSE, Id.s, "int", FALSE) \o SharedGuardBody
  /\ ~HasOpCode(OptimizedData, SpvOpBranchConditional)
  /\ ~HasOpCode(OptimizedData, SpvOpINotEqual)
  /\ NoDegreeBelowZero(context)

\* A run folded a switch on a literal that two of its cases carry.
C30_DuplicateLiteralWitness ==
  /\ RunSucceeded
  /\ options.removeDeadCode
  /\ data = Preamble(FALSE, Id.s, "int", FALSE) \o CasesBody(<<1, Id.L1, 1, Id.L2>>)
  /\ HasInstruction(OptimizedData, Instr(SpvOpSwitch, <<Id.c0, Id.L2>>))

\* A run compacted a phi of three pairs in the evaluation pass and again in the final
\* pass: one pair is left.
C30_TwicePhiWitness ==
  /\ RunSucceeded
  /\ options.removeDeadCode
  /\ data = Preamble(FALSE, Id.s, "int", FALSE) \o TwicePhiBody
  /\ HasInstruction(OptimizedData, Instr(SpvOpPhi, <<Id.uint, Id.r, Id.c0, Id.entry>>))
====
